---------------------------- MODULE Spec2Model ----------------------------
(***************************************************************************)
(* A model of the teliox Transaction Event Log engine: the manager and VC  *)
(* state machines (apply), and the EventProcessor that persists verifiable *)
(* events into per-identifier streams and folds them into states.          *)
(*                                                                         *)
(* Bytes are sequences of string tokens.  A digest is the idealised        *)
(* (collision-free) Blake3-256 of the bytes it was derived from, rendered  *)
(* as tokens, so that it can be embedded in the serialization of the next  *)
(* event of a chain.                                                       *)
(***************************************************************************)
EXTENDS Integers, Sequences, FiniteSets, TLC

VARIABLES
    management_events, \* database, management keyspace: id -> stream
    vc_events,         \* database, VC keyspace: id -> stream
    returned,          \* what the last EventProcessor.process call returned
    state,             \* a ManagerTelState held by a caller of apply
    vc_state,          \* a TelState (vc_state.rs) held by a caller of apply
    tel_state,         \* a TelState (vc_tel.rs variant) held by a caller
    before,            \* the state the last apply was called on, or the
                       \* last generator call
    event,             \* the event of the last apply / process call
    result,            \* the Result the last apply / generator returned
    tel,               \* the fields of the Tel facade over the database
    variant            \* which source file of the facade the build holds

vars == <<management_events, vc_events, returned, state, vc_state, tel_state,
          before, event, result, tel, variant>>

---------------------------------------------------------------------------
(* Bounds of the model *)

\* largest sequence number an input event carries
MaxSn == 2
\* most events the database holds over all streams
MaxEvents == 3

---------------------------------------------------------------------------
(* Identifiers, digests, bytes *)

DefaultPrefix == "default"
RegistryIds == {"R1", "R2"}
IssuerIds == {"I1"}
VcIds == {"V1"}

None == [some |-> FALSE]
Some(v) == [some |-> TRUE, v |-> v]

Ok(s) == [ok |-> TRUE, state |-> s]
Err(msg) == [ok |-> FALSE, err |-> msg]

HexDigits == <<"0", "1", "2", "3", "4", "5", "6", "7",
               "8", "9", "a", "b", "c", "d", "e", "f">>

\* serde_hex Compact: lowercase hex without leading zeros, 0 renders "0"
RECURSIVE Hex(_)
Hex(n) == IF n < 16 THEN HexDigits[n + 1]
          ELSE Hex(n \div 16) \o HexDigits[(n % 16) + 1]

\* a JSON array of strings
List(xs) == <<"[">> \o xs \o <<"]">>

\* SelfAddressing::Blake3_256.derive(bytes): the digest text
Derive(bytes) == <<"E(">> \o bytes \o <<")">>

\* SelfAddressingPrefix::verify_binding(bytes)
VerifyBinding(digest, bytes) == Derive(bytes) = digest

\* a digest of bytes no event serializes to
BadDigest == Derive(<<"unrelated">>)

Contains(xs, x) == \E k \in 1..Len(xs) : xs[k] = x

---------------------------------------------------------------------------
(* Manager events and the manager state *)

Vcp(i, s, ii, c, bt, b) ==
    [t |-> "vcp", i |-> i, s |-> s, ii |-> ii, c |-> c, bt |-> bt, b |-> b]

Vrt(i, s, p, ba, br) ==
    [t |-> "vrt", i |-> i, s |-> s, p |-> p, ba |-> ba, br |-> br]

\* ManagerTelEvent::serialize: the fields in declaration order, the type
\* flattened behind its tag
Serialize(e) ==
    <<"i", e.i, "s", Hex(e.s), "t", e.t>> \o
    IF e.t = "vcp"
    THEN <<"ii", e.ii, "c">> \o List(e.c) \o <<"bt", Hex(e.bt), "b">> \o List(e.b)
    ELSE <<"p">> \o e.p \o <<"ba">> \o List(e.ba) \o <<"br">> \o List(e.br)

ManagerTelState(prefix, sn, last, issuer, backers) ==
    [prefix |-> prefix, sn |-> sn, last |-> last, issuer |-> issuer,
     backers |-> backers]

\* #[derive(Default)]
DefaultManagerTelState ==
    ManagerTelState(DefaultPrefix, 0, <<>>, DefaultPrefix, None)

\* the prefix field of the state an event yields (event/manager_event.rs)
AppliedPrefix(e, st) == IF e.t = "vcp" THEN e.i ELSE st.prefix

\* backers.iter().filter(|backer| !backers.contains(backer))
RECURSIVE FilterBackers(_, _)
FilterBackers(xs, backers) ==
    IF xs = <<>> THEN <<>>
    ELSE (IF ~Contains(backers, Head(xs)) THEN <<Head(xs)>> ELSE <<>>)
         \o FilterBackers(Tail(xs), backers)

\* the backers of the rotated state: the filtered old backers, then ba
RotateBackers(backers, vrt) == FilterBackers(backers, backers) \o vrt.ba

\* "NB" in the config means a backerless registry
InceptionBackers_IgnoreConfig(vcp) == Some(vcp.b)

InceptionBackers(vcp) == IF Contains(vcp.c, "NB") THEN None ELSE Some(vcp.b)

\* state != &ManagerTelState::default()
IsDefault_IssuerOnly(st) == st.issuer = DefaultPrefix

IsDefault(st) == st = DefaultManagerTelState

\* state.sn + 1 == self.sn
SnFollows_Later(e, st) == st.sn < e.s

SnFollows(e, st) == st.sn + 1 = e.s

\* vrt.prev_event.verify_binding(&state.last)
PrevBinds_Unchecked(e, st) == TRUE

PrevBinds(e, st) == VerifyBinding(e.p, st.last)

\* the Vcp arm of apply_to once the state is known to be the default
Incept_EventSn(e, st) ==
    Ok(ManagerTelState(AppliedPrefix(e, st), e.s, Serialize(e), e.ii,
                       InceptionBackers(e)))

\* an inception that stores no bytes
Incept_NoLast(e, st) ==
    Ok(ManagerTelState(AppliedPrefix(e, st), 0, <<>>, e.ii, InceptionBackers(e)))

\* sn 0, last the serialization of the event, the issuer and the backers of
\* the event
Incept(e, st) ==
    Ok(ManagerTelState(AppliedPrefix(e, st), 0, Serialize(e), e.ii,
                       InceptionBackers(e)))

\* a rotation that builds the rest of the state from the default
Rotate_DefaultIssuer(e, st) ==
    IF st.backers.some
    THEN Ok(ManagerTelState(AppliedPrefix(e, st), e.s, Serialize(e), DefaultPrefix,
                            Some(RotateBackers(st.backers.v, e))))
    ELSE Err("Trying to update backers of backerless state")

\* a rotation that changes the backers and leaves sn and last as they were
Rotate_KeepsSn(e, st) ==
    IF st.backers.some
    THEN Ok(ManagerTelState(AppliedPrefix(e, st), st.sn, st.last, st.issuer,
                            Some(RotateBackers(st.backers.v, e))))
    ELSE Err("Trying to update backers of backerless state")

\* the Vrt arm of apply_to once sn and p are accepted: sn, last and backers
\* are the event's, the issuer is cloned from the state
Rotate(e, st) ==
    IF st.backers.some
    THEN Ok(ManagerTelState(AppliedPrefix(e, st), e.s, Serialize(e), st.issuer,
                            Some(RotateBackers(st.backers.v, e))))
    ELSE Err("Trying to update backers of backerless state")

\* an apply_to that looks at the backers of the state first
apply_to_BackersFirst(e, st) ==
    IF e.t = "vcp"
    THEN IF ~IsDefault(st)
         THEN Err("Improper manager state")
         ELSE Incept(e, st)
    ELSE IF ~st.backers.some
         THEN Err("Trying to update backers of backerless state")
         ELSE IF SnFollows(e, st)
              THEN IF PrevBinds(e, st)
                   THEN Rotate(e, st)
                   ELSE Err("Previous event doesn't match")
              ELSE Err("Improper event sn")

\* ManagerTelEvent::apply_to
apply_to(e, st) ==
    IF e.t = "vcp"
    THEN IF ~IsDefault(st)
         THEN Err("Improper manager state")
         ELSE Incept(e, st)
    ELSE IF SnFollows(e, st)
         THEN IF PrevBinds(e, st)
              THEN Rotate(e, st)
              ELSE Err("Previous event doesn't match")
         ELSE Err("Improper event sn")

---------------------------------------------------------------------------
(* VC events and the VC state *)

EventSeal(prefix, sn, event_digest) ==
    [prefix |-> prefix, sn |-> sn, event_digest |-> event_digest]

\* EventSeal::default()
DefaultEventSeal == EventSeal(DefaultPrefix, 0, <<>>)

Iss(i, s, ri) == [t |-> "iss", i |-> i, s |-> s, ri |-> ri]
Bis(i, s, ra) == [t |-> "bis", i |-> i, s |-> s, ra |-> ra]
Rev(i, s, p, ra) == [t |-> "rev", i |-> i, s |-> s, p |-> p, ra |-> ra]
Brv(i, s, p, ra) == [t |-> "brv", i |-> i, s |-> s, p |-> p, ra |-> ra]

SerializeSeal(seal) ==
    <<"{", "i", seal.prefix, "s", Hex(seal.sn), "d">> \o seal.event_digest
    \o <<"}">>

\* VCEvent::serialize: the fields in declaration order, the type flattened
\* behind its tag; an absent registry anchor renders null
SerializeVc(e) ==
    <<"i", e.i, "s", Hex(e.s), "t", e.t>> \o
    CASE e.t = "iss" -> <<"ri", e.ri>>
      [] e.t = "bis" -> <<"ra">> \o SerializeSeal(e.ra)
      [] OTHER -> <<"p">> \o e.p \o <<"ra">> \o
                  (IF e.ra.some THEN SerializeSeal(e.ra.v) ELSE <<"null">>)

NotIsuued == [tag |-> "NotIsuued"]
Issued(last) == [tag |-> "Issued", last |-> last]
Revoked == [tag |-> "Revoked"]

\* the state an issuance is accepted in
CanIssue_NotIssued(st) == st.tag # "Issued"

CanIssue(st) == st = NotIsuued

\* an apply that also wants sn 0 of an issuance and sn 1 of a revocation
TelState_apply_SnChecked(st, e) ==
    IF e.t \in {"bis", "iss"}
    THEN IF CanIssue(st) /\ e.s = 0
         THEN Ok(Issued(SerializeVc(e)))
         ELSE Err("Wrong state")
    ELSE IF st.tag = "Issued"
         THEN IF VerifyBinding(e.p, st.last) /\ e.s = 1
              THEN Ok(Revoked)
              ELSE Err("Previous event doesn't match")
         ELSE Err("Wrong state")

\* impl State<VCEvent> for TelState (vc_state.rs)
TelState_apply(st, e) ==
    IF e.t \in {"bis", "iss"}
    THEN IF CanIssue(st)
         THEN Ok(Issued(SerializeVc(e)))
         ELSE Err("Wrong state")
    ELSE IF st.tag = "Issued"
         THEN IF VerifyBinding(e.p, st.last)
              THEN Ok(Revoked)
              ELSE Err("Previous event doesn't match")
         ELSE Err("Wrong state")

\* impl State<VCEvent> for TelState (vc_tel.rs): Issued keeps the registry
\* anchor of the issuance; the backed revocation is tagged brt there
VcTel_apply(st, e) ==
    CASE e.t = "bis" -> IF st = NotIsuued THEN Ok(Issued(e.ra))
                        ELSE Err("Wrong state")
      [] e.t = "iss" -> IF st = NotIsuued THEN Ok(Issued(DefaultEventSeal))
                        ELSE Err("Wrong state")
      [] OTHER -> IF st.tag = "Issued" THEN Ok(Revoked)
                  ELSE Err("Wrong state")

---------------------------------------------------------------------------
(* Verifiable events, the database, the EventProcessor *)

\* enum Event { Management(ManagerTelEvent), Vc(VCEvent) }
Management(e) == [class |-> "Management", body |-> e]
Vc(e) == [class |-> "Vc", body |-> e]

SourceSeal(sn, digest) == [sn |-> sn, digest |-> digest]

VerifiableEvent(e, seal) == [event |-> e, seal |-> seal]

\* the identifiers a stream can be keyed by
StreamIds == RegistryIds \cup VcIds \cup {DefaultPrefix}

\* EventDatabase::add_new_management_event / add_new_event: append to the
\* stream of the identifier
add_new_event(db, ve, id) == [db EXCEPT ![id] = Append(@, ve)]

\* EventDatabase::get_management_events / get_events: the stream in append
\* order, None for an identifier nothing was appended to
get_events(db, id) == IF db[id] = <<>> THEN None ELSE Some(db[id])

\* the closure get_management_tel_state folds with
ManagementStep_SkipRejected(acc, ve) ==
    IF ve.event.class = "Management"
    THEN IF acc.ok /\ apply_to(ve.event.body, acc.state).ok
         THEN apply_to(ve.event.body, acc.state) ELSE acc
    ELSE Err("Improper event type")

ManagementStep_FromDefault(acc, ve) ==
    IF ve.event.class = "Management"
    THEN IF acc.ok THEN apply_to(ve.event.body, DefaultManagerTelState) ELSE acc
    ELSE Err("Improper event type")

ManagementStep_SealChecked(acc, ve) ==
    IF ve.event.class = "Management"
    THEN IF acc.ok
         THEN IF ve.seal.sn = acc.state.sn + 1
              THEN apply_to(ve.event.body, acc.state)
              ELSE Err("Improper source seal")
         ELSE acc
    ELSE Err("Improper event type")

\* a fold that starts again from the default state after an error
ManagementStep_Restarting(acc, ve) ==
    IF ve.event.class = "Management"
    THEN apply_to(ve.event.body,
                  IF acc.ok THEN acc.state ELSE DefaultManagerTelState)
    ELSE Err("Improper event type")

\* state?.apply(&event): an error of the fold so far is the fold's result
ManagementStep(acc, ve) ==
    IF ve.event.class = "Management"
    THEN IF acc.ok THEN apply_to(ve.event.body, acc.state) ELSE acc
    ELSE Err("Improper event type")

\* the closure get_vc_state folds with
VcStep(acc, ve) ==
    IF ve.event.class = "Vc"
    THEN IF acc.ok THEN TelState_apply(acc.state, ve.event.body) ELSE acc
    ELSE acc

RECURSIVE FoldManagement(_, _)
FoldManagement(events, acc) ==
    IF events = <<>> THEN acc
    ELSE FoldManagement(Tail(events), ManagementStep(acc, Head(events)))

RECURSIVE FoldVc(_, _)
FoldVc(events, acc) ==
    IF events = <<>> THEN acc
    ELSE FoldVc(Tail(events), VcStep(acc, Head(events)))

\* EventProcessor::get_management_tel_state over the management keyspace db
get_management_tel_state(db, id) ==
    LET events == get_events(db, id)
    IN  IF events.some THEN FoldManagement(events.v, Ok(DefaultManagerTelState))
        ELSE Ok(DefaultManagerTelState)

\* EventProcessor::get_vc_state over the VC keyspace db
get_vc_state(db, id) ==
    LET events == get_events(db, id)
    IN  IF events.some THEN FoldVc(events.v, Ok(NotIsuued))
        ELSE Ok(NotIsuued)

Base64 == <<"A", "B", "C", "D", "E", "F", "G", "H", "I", "J", "K", "L", "M",
            "N", "O", "P", "Q", "R", "S", "T", "U", "V", "W", "X", "Y", "Z",
            "a", "b", "c", "d", "e", "f", "g", "h", "i", "j", "k", "l", "m",
            "n", "o", "p", "q", "r", "s", "t", "u", "v", "w", "x", "y", "z",
            "0", "1", "2", "3", "4", "5", "6", "7", "8", "9", "-", "_">>

\* base64::encode_config(bytes, URL_SAFE): three bytes make four
\* characters; a last group of one or two bytes is filled with zero bits and
\* the text padded with "="
RECURSIVE encode_config(_)
encode_config(bytes) ==
    IF Len(bytes) = 0 THEN <<>>
    ELSE IF Len(bytes) = 1
    THEN << Base64[(bytes[1] \div 4) + 1], Base64[((bytes[1] % 4) * 16) + 1],
            "=", "=" >>
    ELSE IF Len(bytes) = 2
    THEN LET n == (bytes[1] * 256 + bytes[2]) * 4
         IN  << Base64[(n \div 4096) + 1], Base64[((n \div 64) % 64) + 1],
                Base64[(n % 64) + 1], "=" >>
    ELSE LET n == bytes[1] * 65536 + bytes[2] * 256 + bytes[3]
         IN  << Base64[(n \div 262144) + 1], Base64[((n \div 4096) % 64) + 1],
                Base64[((n \div 64) % 64) + 1], Base64[(n % 64) + 1] >>
             \o encode_config(SubSeq(bytes, 4, Len(bytes)))

\* u64::to_be_bytes(sn), for an sn that fits the integers of the checker
RECURSIVE BeBytes(_, _)
BeBytes(n, width) ==
    IF width = 0 THEN <<>> ELSE BeBytes(n \div 256, width - 1) \o <<n % 256>>

to_be_bytes(sn) == BeBytes(sn, 8)

\* num_to_base_64 of an sn given by its eight big-endian bytes, cut one
\* character short
num_to_base_64_be_Short(be) ==
    SubSeq(encode_config(<<0, 0, 0, 0, 0, 0, 0, 0>> \o be), 1, 21)

\* num_to_base_64 of an sn given by its eight big-endian bytes: the first 22
\* characters of the URL-safe Base64 of eight zero bytes followed by them
num_to_base_64_be(be) ==
    SubSeq(encode_config(<<0, 0, 0, 0, 0, 0, 0, 0>> \o be), 1, 22)

\* num_to_base_64(sn: u64), one token a character
num_to_base_64(sn) == num_to_base_64_be(to_be_bytes(sn))

\* the attached source seal on the wire: the group code, the digest code,
\* the sn and the digest text
SerializeSourceSeal(seal) ==
    <<"-eAB", "0A">> \o num_to_base_64(seal.sn) \o <<seal.digest>>

\* VerifiableEvent::serialize: the bytes of the event, then the attached seal
VerifiableEvent_serialize(ve) ==
    (IF ve.event.class = "Management" THEN Serialize(ve.event.body)
     ELSE SerializeVc(ve.event.body))
    \o SerializeSourceSeal(ve.seal)

\* the closure with the serialized event put in front of the accumulator
Extend_Front(accum, serialized_event) == serialized_event \o accum

\* the closure the getters fold with: accum.extend(serialized_event)
Extend(accum, serialized_event) == accum \o serialized_event

RECURSIVE FoldExtend(_, _)
FoldExtend(events, accum) ==
    IF events = <<>> THEN accum
    ELSE FoldExtend(Tail(events),
                    Extend(accum, VerifiableEvent_serialize(Head(events))))

\* EventProcessor::get_management_events over the management keyspace db
EventProcessor_get_management_events(db, id) ==
    LET events == get_events(db, id)
    IN  IF events.some THEN Some(FoldExtend(events.v, <<>>)) ELSE None

\* EventProcessor::get_events over the VC keyspace db
EventProcessor_get_events(db, id) ==
    LET events == get_events(db, id)
    IN  IF events.some THEN Some(FoldExtend(events.v, <<>>)) ELSE None

\* the last element whose sn is the one looked for
RECURSIVE FindLast(_, _)
FindLast(events, sn) ==
    IF events = <<>> THEN None
    ELSE LET e == events[Len(events)]
         IN  IF e.event.class = "Management" /\ e.event.body.s = sn
             THEN Some(e)
             ELSE FindLast(SubSeq(events, 1, Len(events) - 1), sn)

\* events.find(|event| ..): the first management event whose sn is the one
\* looked for
RECURSIVE Find(_, _)
Find(events, sn) ==
    IF events = <<>> THEN None
    ELSE IF Head(events).event.class = "Management"
            /\ Head(events).event.body.s = sn
         THEN Some(Head(events))
         ELSE Find(Tail(events), sn)

\* EventProcessor::get_management_event_at_sn over the management keyspace
get_management_event_at_sn(db, id, sn) ==
    LET events == get_events(db, id)
    IN  IF events.some THEN Find(events.v, sn) ELSE None

\* Ok(State::Management(..)) / Ok(State::Tel(..)), an error passed through
StateOf(class, r) ==
    IF r.ok THEN Ok([class |-> class, state |-> r.state]) ELSE r

---------------------------------------------------------------------------
(* Inputs *)

\* an sn far from any state's, as in test_apply_to
FarSn == 10

SnInputs == (0..MaxSn) \cup {FarSn}

\* inceptions: with and without "NB", with and without backers, the s field
\* right or not, and one whose every field is a default
VcpInputs ==
    { Vcp(i, s, ii, c, 0, b) :
        i \in {"R1"}, s \in {0, 1}, ii \in IssuerIds,
        c \in {<<>>, <<"NB">>}, b \in {<<>>, <<"B1", "B2">>} }
    \cup { Vcp(DefaultPrefix, 0, DefaultPrefix, <<"NB">>, 0, <<>>) }

\* rotations against a state: p binds the state's last bytes or binds nothing
VrtInputs(st) ==
    { Vrt(i, s, p, ba, br) :
        i \in {"R1"}, s \in SnInputs,
        p \in {Derive(st.last), BadDigest},
        ba \in {<<>>, <<"B3">>}, br \in {<<>>, <<"B1">>} }

AnchorInputs == { EventSeal(r, 0, BadDigest) : r \in RegistryIds }

\* VC events against a state: issuances, revocations whose p binds the
\* issued bytes or binds nothing, and the event of the last call once more
VcInputs(st) ==
    LET ps == {BadDigest} \cup
              (IF st.tag = "Issued" THEN {Derive(st.last)} ELSE {})
        ras == {None} \cup { Some(a) : a \in AnchorInputs }
    IN  { Iss(i, s, ri) : i \in VcIds, s \in {0, 1}, ri \in RegistryIds }
        \cup { Bis(i, s, ra) : i \in VcIds, s \in {0, 1}, ra \in AnchorInputs }
        \cup { Rev(i, s, p, ra) : i \in VcIds, s \in {0, 1}, p \in ps, ra \in ras }
        \cup { Brv(i, s, p, ra) : i \in VcIds, s \in {0, 1}, p \in ps, ra \in ras }
        \cup (IF event.t \in {"iss", "bis", "rev", "brv"} THEN {event} ELSE {})

\* the source seal test_processing attaches to every event
DummySourceSeal == SourceSeal(1, "EJJR")

SealInputs == {DummySourceSeal}

\* management events a client sends to the processor: inceptions, and
\* rotations whose p binds the current state's last bytes or binds nothing
ProcessManagementInputs(db) ==
    { Vcp(i, s, "I1", c, 0, <<"B1">>) :
        i \in RegistryIds, s \in {0, 1}, c \in {<<>>, <<"NB">>} }
    \cup UNION { LET st == get_management_tel_state(db, i)
                     ps == {BadDigest} \cup
                           (IF st.ok THEN {Derive(st.state.last)} ELSE {})
                 IN  { Vrt(i, s, p, <<"B2">>, <<>>) : s \in 0..MaxSn, p \in ps }
                 : i \in RegistryIds }

\* VC events a client sends to the processor: issuances with sn 0 and 1,
\* naming either registry; revocations with sn 1 and 0, with and without a
\* registry anchor, whose p binds the issuance or binds nothing
ProcessVcInputs(db) ==
    UNION { LET st == get_vc_state(db, i)
                ps == {BadDigest} \cup
                      (IF st.ok /\ st.state.tag = "Issued"
                       THEN {Derive(st.state.last)} ELSE {})
            IN  { Iss(i, 0, "R1"), Bis(i, 0, EventSeal("R1", 0, BadDigest)) }
                \cup { Rev(i, 1, p, None) : p \in ps }
                \cup { Brv(i, 1, p, None) : p \in ps }
                \cup { Iss(i, 1, "R2") }
                \cup { Brv(i, 0, p, Some(EventSeal("R2", 0, BadDigest))) : p \in ps }
            : i \in VcIds }

---------------------------------------------------------------------------
(* A caller folding events into a manager state by hand (test_apply_to) *)

NoCall == [t |-> "none"]

\* Tel::new: the facade over a database, its tel_prefix the default
Tel_new == [tel_prefix |-> DefaultPrefix,
            serialization_format |-> "JSON",
            derivation |-> "Blake3_256"]

\* the byte a tampered copy carries in place of the original
Flipped == "#"

InitCommon ==
    /\ management_events = [id \in StreamIds |-> <<>>]
    /\ vc_events = [id \in StreamIds |-> <<>>]
    /\ returned = NoCall
    /\ state = DefaultManagerTelState
    /\ vc_state = NotIsuued
    /\ tel_state = NotIsuued
    /\ before = DefaultManagerTelState
    /\ event = NoCall
    /\ result = NoCall
    /\ tel = Tel_new
    /\ variant = "tel/mod.rs"

\* let state = event.apply_to(&state)?  -- an error leaves the caller with
\* the state it had
Apply(e) ==
    /\ before' = state
    /\ event' = e
    /\ result' = apply_to(e, state)
    /\ state' = IF result'.ok THEN result'.state ELSE state
    /\ UNCHANGED <<management_events, vc_events, returned, vc_state, tel_state,
                   tel, variant>>

ApplyVcp == \E e \in VcpInputs : Apply(e)

ApplyVrt == \E e \in VrtInputs(state) : Apply(e)

\* the state with byte k of its stored last bytes flipped
Tampered(st, k) == [st EXCEPT !.last[k] = Flipped]

\* chain tamper: a rotation generated against the state is folded into a copy
\* of the state whose last bytes differ in one byte
ApplyTampered ==
    \E k \in 1..Len(state.last) :
      \E e \in { v \in VrtInputs(state) :
                     /\ v.s = state.sn + 1 /\ v.p = Derive(state.last)
                     /\ v.ba = <<>> /\ v.br = <<>> } :
        /\ before' = Tampered(state, k)
        /\ event' = e
        /\ result' = apply_to(e, before')
        /\ state' = IF result'.ok THEN result'.state ELSE state
        /\ UNCHANGED <<management_events, vc_events, returned, vc_state,
                       tel_state, tel, variant>>

NextApply == ApplyVcp \/ ApplyVrt \/ ApplyTampered

SpecApply == InitCommon /\ [][NextApply]_vars

---------------------------------------------------------------------------
(* A caller folding events into a VC state by hand (test_apply), both      *)
(* variants of TelState side by side on the same events                    *)

ApplyVc ==
    \E e \in VcInputs(vc_state) :
        /\ before' = [vc |-> vc_state, tel |-> tel_state]
        /\ event' = e
        /\ result' = [vc |-> TelState_apply(vc_state, e),
                      tel |-> VcTel_apply(tel_state, e)]
        /\ vc_state' = IF result'.vc.ok THEN result'.vc.state ELSE vc_state
        /\ tel_state' = IF result'.tel.ok THEN result'.tel.state ELSE tel_state
        /\ UNCHANGED <<management_events, vc_events, returned, state, tel,
                       variant>>

NextVc == ApplyVc

SpecVc == InitCommon /\ [][NextVc]_vars

---------------------------------------------------------------------------
(* Clients of the EventProcessor *)

\* the number of events the database holds
RECURSIVE Total(_, _)
Total(db, ids) ==
    IF ids = {} THEN 0
    ELSE LET id == CHOOSE x \in ids : TRUE
         IN  Len(db[id]) + Total(db, ids \ {id})

Stored == Total(management_events, StreamIds) + Total(vc_events, StreamIds)

\* EventProcessor::process with the state computed before the append
process_FoldFirst(ve) ==
    LET id == ve.event.body.i
    IN  IF ve.event.class = "Management"
        THEN /\ returned' = StateOf("Management",
                                    get_management_tel_state(management_events, id))
             /\ management_events' = add_new_event(management_events, ve, id)
             /\ UNCHANGED vc_events
        ELSE /\ returned' = StateOf("Tel", get_vc_state(vc_events, id))
             /\ vc_events' = add_new_event(vc_events, ve, id)
             /\ UNCHANGED management_events

\* EventProcessor::process: the event is appended to the stream of its class
\* and prefix, then the whole stream is folded and the fold returned
process(ve) ==
    LET id == ve.event.body.i
    IN  IF ve.event.class = "Management"
        THEN /\ management_events' = add_new_event(management_events, ve, id)
             /\ returned' = StateOf("Management",
                                    get_management_tel_state(management_events', id))
             /\ UNCHANGED vc_events
        ELSE /\ vc_events' = add_new_event(vc_events, ve, id)
             /\ returned' = StateOf("Tel", get_vc_state(vc_events', id))
             /\ UNCHANGED management_events

\* a client handing a management event to EventProcessor::process
ProcessManagement ==
    /\ Stored < MaxEvents
    /\ \E e \in ProcessManagementInputs(management_events), seal \in SealInputs :
         LET ve == VerifiableEvent(Management(e), seal)
         IN  process(ve) /\ event' = ve
    /\ UNCHANGED <<state, vc_state, tel_state, before, result, tel, variant>>

\* a client handing a VC event to EventProcessor::process
ProcessVc ==
    /\ Stored < MaxEvents
    /\ \E e \in ProcessVcInputs(vc_events), seal \in SealInputs :
         LET ve == VerifiableEvent(Vc(e), seal)
         IN  process(ve) /\ event' = ve
    /\ UNCHANGED <<state, vc_state, tel_state, before, result, tel, variant>>

Init == InitCommon

Next == ProcessManagement \/ ProcessVc

Spec == Init /\ [][Next]_vars

---------------------------------------------------------------------------
(* The Tel facade and its event generators *)

\* the two source files of the facade; a build holds one of them
TelVariants == {"tel/mod.rs", "tel.rs"}

\* the credential test_issuing issues and revokes
Vcs == {"some vc"}

\* IdentifierPrefix::SelfAddressing(Blake3_256.derive(vc.as_bytes()))
VcPrefix(vc) == CASE vc = "some vc" -> "V1"

\* Inc::incept_self_addressing: the registry prefix is the digest of the
\* inception data; the two inceptions the clients make get the two registry
\* identifiers
InceptionPrefix(ii, c, bt, b) == IF Contains(c, "NB") THEN "R1" ELSE "R2"

\* event_generator::make_inception_event
make_inception_event(ii, c, bt, b) ==
    Management(Vcp(InceptionPrefix(ii, c, bt, b), 0, ii, c, bt, b))

\* event_generator::make_rotation_event
make_rotation_event(st, ba, br) ==
    Management(Vrt(st.prefix, st.sn + 1, Derive(st.last), ba, br))

\* event_generator::make_issuance_event
make_issuance_event_NextSn(st, vc_hash) ==
    Vc(Bis(vc_hash, 0, EventSeal(st.prefix, st.sn + 1, Derive(st.last))))

make_issuance_event(st, vc_hash) ==
    Vc(Bis(vc_hash, 0, EventSeal(st.prefix, st.sn, Derive(st.last))))

\* event_generator::make_revoke_event
make_revoke_event(vc_hash, last_vc_event, st) ==
    Vc(Brv(vc_hash, 0, last_vc_event,
           Some(EventSeal(st.prefix, st.sn, Derive(st.last)))))

\* Tel::get_management_tel_state: the registry the facade remembers
Tel_get_management_tel_state ==
    get_management_tel_state(management_events, tel.tel_prefix)

\* Tel::get_vc_state
Tel_get_vc_state(vc) == get_vc_state(vc_events, VcPrefix(vc))

\* Tel::make_rotation_event of tel.rs: the event is built in place, with the
\* sn of the state and the facade's tel_prefix
tel_rs_make_rotation_event(ba, br) ==
    LET st == Tel_get_management_tel_state
    IN  IF ~st.ok THEN st
        ELSE Ok(Management(Vrt(tel.tel_prefix, st.state.sn,
                               Derive(st.state.last), ba, br)))

\* Tel::make_rotation_event
Tel_make_rotation_event(ba, br) ==
    LET st == Tel_get_management_tel_state
    IN  IF variant = "tel.rs" THEN tel_rs_make_rotation_event(ba, br)
        ELSE IF ~st.ok THEN st
        ELSE Ok(make_rotation_event(st.state, ba, br))

\* Tel::make_issuance_event, the same in both files
Tel_make_issuance_event(vc) ==
    LET st == Tel_get_management_tel_state
    IN  IF ~st.ok THEN st
        ELSE Ok(make_issuance_event(st.state, VcPrefix(vc)))

ImproperVcStateError == Err("Inproper vc state")

\* Tel::make_revoke_event of tel.rs: it reads the management state alone and
\* binds the revocation to the last bytes of the registry
tel_rs_make_revoke_event(vc) ==
    LET st == Tel_get_management_tel_state
    IN  IF ~st.ok THEN st
        ELSE Ok(make_revoke_event(VcPrefix(vc), Derive(st.state.last),
                                  st.state))

\* Tel::make_revoke_event: it reads the VC state and binds the revocation to
\* the bytes of the issuance
Tel_make_revoke_event(vc) ==
    LET st == Tel_get_management_tel_state
        vcst == Tel_get_vc_state(vc)
    IN  IF variant = "tel.rs" THEN tel_rs_make_revoke_event(vc)
        ELSE IF ~vcst.ok THEN vcst
        ELSE IF vcst.state.tag # "Issued" THEN ImproperVcStateError
        ELSE IF ~st.ok THEN st
        ELSE Ok(make_revoke_event(VcPrefix(vc), Derive(vcst.state.last),
                                  st.state))

\* the tel_prefix after Tel::process got `ret` from the processor: set to the
\* prefix of the first management state returned while it is the default
Latch_Always(t, ret) ==
    IF ret.ok /\ ret.state.class = "Management"
    THEN [t EXCEPT !.tel_prefix = ret.state.state.prefix]
    ELSE t

Latch(t, ret) ==
    IF ret.ok /\ t.tel_prefix = DefaultPrefix /\ ret.state.class = "Management"
    THEN [t EXCEPT !.tel_prefix = ret.state.state.prefix]
    ELSE t

\* Tel::process with tel_prefix taken from the event, whatever the processor
\* returned
Tel_process_LatchFromEvent(ve) ==
    /\ process(ve)
    /\ event' = ve
    /\ tel' = IF tel.tel_prefix = DefaultPrefix /\ ve.event.class = "Management"
              THEN [tel EXCEPT !.tel_prefix = ve.event.body.i]
              ELSE tel

\* Tel::process: an error of the processor is returned before tel_prefix is
\* looked at
Tel_process(ve) ==
    /\ process(ve)
    /\ event' = ve
    /\ tel' = Latch(tel, returned')

\* the source seals test_issuing attaches: the interaction events of the
\* issuer's KEL that anchor the TEL events
TelSealInputs == {SourceSeal(1, "EIxn1"), SourceSeal(2, "EIxn2")}

\* the inceptions a client asks the facade for: backerless, and with a backer
InceptionInputs == { <<"I1", <<"NB">>, 0, <<>> >>, <<"I1", <<>>, 0, <<"B1">> >> }

\* the backers a client asks a rotation to add and to remove
RotationInputs == { << <<"B2">>, <<>> >> }

\* events a client hands to the facade that no generator made: an inception
\* whose prefix is the default, a rotation and a revocation that bind nothing
TelClientInputs ==
    { Management(Vcp(DefaultPrefix, 0, "I1", <<>>, 0, <<"B1">>)),
      Management(Vrt("R2", 1, BadDigest, <<>>, <<>>)),
      Vc(Rev("V1", 1, BadDigest, None)) }

InitTel ==
    /\ management_events = [id \in StreamIds |-> <<>>]
    /\ vc_events = [id \in StreamIds |-> <<>>]
    /\ returned = NoCall
    /\ state = DefaultManagerTelState
    /\ vc_state = NotIsuued
    /\ tel_state = NotIsuued
    /\ before = NoCall
    /\ event = NoCall
    /\ result = NoCall
    /\ tel = Tel_new
    /\ variant \in TelVariants

\* what a generator call leaves alone: it returns an event or an error and
\* writes nothing
generated == <<management_events, vc_events, returned, state, vc_state,
               tel_state, event, tel, variant>>

TelMakeInception ==
    /\ \E in \in InceptionInputs :
          /\ before' = [call |-> "make_inception_event"]
          /\ result' = Ok(make_inception_event(in[1], in[2], in[3], in[4]))
    /\ UNCHANGED generated

TelMakeRotation ==
    /\ \E in \in RotationInputs :
          /\ before' = [call |-> "make_rotation_event"]
          /\ result' = Tel_make_rotation_event(in[1], in[2])
    /\ UNCHANGED generated

TelMakeIssuance ==
    /\ \E vc \in Vcs :
          /\ before' = [call |-> "make_issuance_event", vc |-> vc]
          /\ result' = Tel_make_issuance_event(vc)
    /\ UNCHANGED generated

TelMakeRevoke ==
    /\ \E vc \in Vcs :
          /\ before' = [call |-> "make_revoke_event", vc |-> vc]
          /\ result' = Tel_make_revoke_event(vc)
    /\ UNCHANGED generated

\* the client moves the event the last generator call returned into a
\* verifiable event with a source seal and hands it to Tel::process
TelProcessMade ==
    /\ Stored < MaxEvents
    /\ result # NoCall
    /\ result.ok
    /\ \E seal \in TelSealInputs : Tel_process(VerifiableEvent(result.state, seal))
    /\ before' = NoCall
    /\ result' = NoCall
    /\ UNCHANGED <<state, vc_state, tel_state, variant>>

TelProcessClient ==
    /\ Stored < MaxEvents
    /\ \E e \in TelClientInputs :
            Tel_process(VerifiableEvent(e, DummySourceSeal))
    /\ UNCHANGED <<state, vc_state, tel_state, before, result, variant>>

\* a facade created over the database an earlier facade wrote to
TelNew ==
    /\ tel.tel_prefix # DefaultPrefix
    /\ tel' = Tel_new
    /\ UNCHANGED <<management_events, vc_events, returned, state, vc_state,
                   tel_state, before, event, result, variant>>

NextTel ==
    \/ TelMakeInception
    \/ TelMakeRotation
    \/ TelMakeIssuance
    \/ TelMakeRevoke
    \/ TelProcessMade
    \/ TelProcessClient
    \/ TelNew

SpecTel == InitTel /\ [][NextTel]_vars

---------------------------------------------------------------------------
(* A writer and a reader of one EventProcessor whose database can fail:    *)
(* process is the append followed by the fold, a query is the read of the  *)
(* stream followed by the fold of what was read                            *)

\* the error of a database operation that failed
StorageError == Err("StorageError")

\* EventDatabase::add_new_management_event / add_new_event as a Result: the
\* database with the event appended, or the error and nothing appended
try_add_new_event(db, ve, id, fails) ==
    IF fails THEN StorageError ELSE Ok(add_new_event(db, ve, id))

\* process has appended and has not folded yet
InFlight == [t |-> "in flight"]

\* one keyspace for both classes of events
KeyspaceOf_Shared(class) == management_events

\* the keyspace of a class of events: management events and VC events are
\* kept apart
KeyspaceOf(class) == IF class = "Management" THEN management_events ELSE vc_events

\* the events the writer sends: inceptions of two registries, a rotation of
\* R1 that binds its state and one that binds nothing, the issuance and the
\* revocation of V1, and the issuance of a VC whose prefix is a registry's
DbInputs ==
    LET st == get_management_tel_state(management_events, "R1")
        vst == get_vc_state(vc_events, "V1")
    IN  { Management(Vcp(i, 0, "I1", <<>>, 0, <<"B1">>)) : i \in RegistryIds }
        \cup { Management(Vrt("R1", 1, BadDigest, <<"B2">>, <<>>)) }
        \cup (IF st.ok /\ st.state # DefaultManagerTelState
              THEN { Management(Vrt("R1", st.state.sn + 1, Derive(st.state.last),
                                    <<"B2">>, <<>>)) }
              ELSE {})
        \cup { Vc(Bis(i, 0, EventSeal("R1", 0, BadDigest))) : i \in {"V1", "R1"} }
        \cup (IF vst.ok /\ vst.state.tag = "Issued"
              THEN { Vc(Brv("V1", 1, Derive(vst.state.last), None)) }
              ELSE {})

\* the queries the reader makes
QueryInputs ==
    { [call |-> "get_management_tel_state", id |-> "R1"],
      [call |-> "get_vc_state", id |-> "V1"],
      [call |-> "get_vc_state", id |-> "R1"] }

\* the keyspace a query reads
QueriedKeyspace(call) ==
    IF call = "get_management_tel_state" THEN management_events ELSE vc_events

\* a query folding on from the state the last query returned
QueryFolded_FromLast(call, events, last) ==
    IF call = "get_management_tel_state"
    THEN IF events.some
         THEN FoldManagement(events.v,
                             IF last # NoCall /\ last.call = call /\ last.ret.ok
                             THEN last.ret ELSE Ok(DefaultManagerTelState))
         ELSE Ok(DefaultManagerTelState)
    ELSE IF events.some THEN FoldVc(events.v, Ok(NotIsuued)) ELSE Ok(NotIsuued)

\* what get_management_tel_state / get_vc_state return for the events read:
\* their fold from the default state, whatever the last query returned
QueryFolded(call, events, last) ==
    IF call = "get_management_tel_state"
    THEN IF events.some THEN FoldManagement(events.v, Ok(DefaultManagerTelState))
         ELSE Ok(DefaultManagerTelState)
    ELSE IF events.some THEN FoldVc(events.v, Ok(NotIsuued)) ELSE Ok(NotIsuued)

InitDb ==
    /\ management_events = [id \in StreamIds |-> <<>>]
    /\ vc_events = [id \in StreamIds |-> <<>>]
    /\ returned = NoCall
    /\ state = DefaultManagerTelState
    /\ vc_state = NotIsuued
    /\ tel_state = NotIsuued
    /\ before = NoCall
    /\ event = NoCall
    /\ result = NoCall
    /\ tel = Tel_new
    /\ variant = "tel/mod.rs"

\* process, first half, with the error of the append dropped
ProcessAppend_IgnoreError ==
    /\ returned # InFlight
    /\ Stored < MaxEvents
    /\ before # NoCall =>
         before.events = get_events(QueriedKeyspace(before.call), before.id)
    /\ \E e \in DbInputs, fails \in BOOLEAN :
         LET ve == VerifiableEvent(e, DummySourceSeal)
             id == e.body.i
             added == try_add_new_event(KeyspaceOf(e.class), ve, id, fails)
         IN  /\ event' = ve
             /\ returned' = InFlight
             /\ IF added.ok
                THEN IF e.class = "Management"
                     THEN management_events' = added.state /\ UNCHANGED vc_events
                     ELSE vc_events' = added.state /\ UNCHANGED management_events
                ELSE UNCHANGED <<management_events, vc_events>>
    /\ result' = NoCall
    /\ UNCHANGED <<state, vc_state, tel_state, before, tel, variant>>

\* process, first half, with a write that is visible before it is whole
ProcessAppend_Torn ==
    /\ returned # InFlight
    /\ Stored < MaxEvents
    /\ before # NoCall =>
         before.events = get_events(QueriedKeyspace(before.call), before.id)
    /\ \E e \in DbInputs, fails \in BOOLEAN :
         LET ve == VerifiableEvent(e, DummySourceSeal)
             torn == VerifiableEvent([class |-> "Torn", body |-> e.body],
                                     DummySourceSeal)
             id == e.body.i
             added == try_add_new_event(KeyspaceOf(e.class), torn, id, fails)
         IN  /\ event' = ve
             /\ IF added.ok
                THEN /\ returned' = InFlight
                     /\ IF e.class = "Management"
                        THEN management_events' = added.state /\ UNCHANGED vc_events
                        ELSE vc_events' = added.state /\ UNCHANGED management_events
                ELSE /\ returned' = added
                     /\ UNCHANGED <<management_events, vc_events>>
    /\ result' = NoCall
    /\ UNCHANGED <<state, vc_state, tel_state, before, tel, variant>>

\* EventProcessor::process, first half: the append to the stream of the
\* event's class and prefix; its error is returned at once.  At most one
\* append falls between the read and the fold of a query on the same stream
ProcessAppend ==
    /\ returned # InFlight
    /\ Stored < MaxEvents
    /\ before # NoCall =>
         before.events = get_events(QueriedKeyspace(before.call), before.id)
    /\ \E e \in DbInputs, fails \in BOOLEAN :
         LET ve == VerifiableEvent(e, DummySourceSeal)
             id == e.body.i
             added == try_add_new_event(KeyspaceOf(e.class), ve, id, fails)
         IN  /\ event' = ve
             /\ IF added.ok
                THEN /\ returned' = InFlight
                     /\ IF e.class = "Management"
                        THEN management_events' = added.state /\ UNCHANGED vc_events
                        ELSE vc_events' = added.state /\ UNCHANGED management_events
                ELSE /\ returned' = added
                     /\ UNCHANGED <<management_events, vc_events>>
    /\ result' = NoCall
    /\ UNCHANGED <<state, vc_state, tel_state, before, tel, variant>>

\* EventProcessor::process, second half: the fold of the stream appended to
ProcessFold ==
    /\ returned = InFlight
    /\ returned' =
         IF event.event.class = "Management"
         THEN StateOf("Management",
                      get_management_tel_state(management_events, event.event.body.i))
         ELSE StateOf("Tel", get_vc_state(vc_events, event.event.body.i))
    /\ UNCHANGED <<management_events, vc_events, state, vc_state, tel_state,
                   before, event, result, tel, variant>>

\* a query, first half: the one read of the stream from the database
QueryRead ==
    /\ before = NoCall
    /\ \E q \in QueryInputs :
         before' = [call |-> q.call, id |-> q.id,
                    events |-> get_events(QueriedKeyspace(q.call), q.id)]
    /\ UNCHANGED <<management_events, vc_events, returned, state, vc_state,
                   tel_state, event, result, tel, variant>>

\* a query, second half: the fold of the events read, returned
QueryFold ==
    /\ before # NoCall
    /\ result' = [call |-> before.call, id |-> before.id, events |-> before.events,
                  ret |-> QueryFolded(before.call, before.events, result)]
    /\ before' = NoCall
    /\ UNCHANGED <<management_events, vc_events, returned, state, vc_state,
                   tel_state, event, tel, variant>>

NextDb == ProcessAppend \/ ProcessFold \/ QueryRead \/ QueryFold

SpecDb == InitDb /\ [][NextDb]_vars

---------------------------------------------------------------------------
(* The wire codec: attached seals, verifiable events with their seal, and  *)
(* the sized header of a constructed event.  The framing codes are spelled *)
(* byte by byte here, one token a byte, because the parser slices them     *)

\* AttachedEventSeal::serialize: the concat of "-eAB", the prefix text,
\* "0A", the 22 characters of the sn, the digest text
AttachedEventSeal_serialize(seal) ==
    Ok(<<"-", "e", "A", "B">> \o <<seal.prefix>> \o <<"0", "A">>
       \o num_to_base_64(seal.sn) \o seal.event_digest)

\* AttachedEventSeal { event_seal }
AttachedEventSeal(seal) == [event_seal |-> seal]

\* impl FromStr for AttachedEventSeal: the first three bytes are matched
\* against "eAB"; the seal returned on a match is EventSeal::default()
from_str(s) ==
    IF SubSeq(s, 1, 3) = <<"e", "A", "B">>
    THEN Ok(AttachedEventSeal(DefaultEventSeal))
    ELSE Err("Can't parse event seal")

\* [a, b, ..].join(sep)
RECURSIVE Join(_, _)
Join(parts, sep) ==
    IF Len(parts) = 0 THEN <<>>
    ELSE IF Len(parts) = 1 THEN Head(parts)
    ELSE Head(parts) \o sep \o Join(Tail(parts), sep)

\* VerifiableTelEvent::serialize / VerifiableManagementEvent::serialize:
\* [self.event.serialize()?, self.seal.serialize()?].join("-".as_bytes())
VerifiableTelEvent_serialize(ve) ==
    LET ev == IF ve.event.class = "Management" THEN Serialize(ve.event.body)
              ELSE SerializeVc(ve.event.body)
        seal == AttachedEventSeal_serialize(ve.seal)
    IN  IF seal.ok THEN Ok(Join(<<ev, seal.state>>, <<"-">>)) ELSE seal

\* the number of bytes of a sequence of tokens
RECURSIVE ByteLen(_)
ByteLen(bytes) ==
    IF bytes = <<>> THEN 0 ELSE Len(Head(bytes)) + ByteLen(Tail(bytes))

\* SerializationInfo::new(format, size)
SerializationInfo(format, size) == [format |-> format, size |-> size]

\* the digits of the size field
SizeDigits == 6

\* n in lowercase hex, zero-padded to a width
RECURSIVE HexPadded(_, _)
HexPadded(n, width) ==
    IF width = 0 THEN ""
    ELSE HexPadded(n \div 16, width - 1) \o HexDigits[(n % 16) + 1]

\* the 17-byte header token: protocol tag, version, format, size, "_"
SerializationInfo_to_str(info) ==
    "KERI10" \o info.format \o HexPadded(info.size, SizeDigits) \o "_"

\* self.serialization_info.kind.encode(&self): the header field v first,
\* then the fields of the event
encode(info, e) == <<"v", SerializationInfo_to_str(info)>> \o Serialize(e)

\* a constructor that measures the fields without the header
ManagerTelEvent_new_FieldsOnly(e, format) ==
    LET size == ByteLen(Serialize(e))
    IN  [serialization_info |-> SerializationInfo(format, size), body |-> e]

\* ManagerTelEvent::new: encode with size 0, measure, keep the measured size
ManagerTelEvent_new(e, format) ==
    LET size == ByteLen(encode(SerializationInfo(format, 0), e))
    IN  [serialization_info |-> SerializationInfo(format, size), body |-> e]

\* ManagerTelEvent::serialize of a constructed event
ManagerTelEvent_serialize(ev) == encode(ev.serialization_info, ev.body)

\* seals to attach: prefixes, sns up to two base-64 digits, digests
EventSealInputs ==
    { EventSeal(i, s, d) :
        i \in RegistryIds, s \in (0..MaxSn) \cup {63, 64},
        d \in {BadDigest, Derive(<<"kel event">>)} }

\* events to send with a seal attached
VerifiableInputs ==
    { Management(Vcp("R1", 0, "I1", <<>>, 0, <<"B1">>)),
      Management(Vrt("R1", 1, BadDigest, <<"B2">>, <<>>)),
      Vc(Iss("V1", 0, "R1")),
      Vc(Rev("V1", 1, BadDigest, None)) }

\* events to construct: prefixes, sns of one and of two hex digits, payloads
\* of both types and of several lengths
NewInputs ==
    { Vcp(i, s, "I1", c, 0, b) :
        i \in {"R1", DefaultPrefix}, s \in (0..MaxSn) \cup {15, 16},
        c \in {<<>>, <<"NB">>}, b \in {<<>>, <<"B1">>, <<"B1", "B2">>} }
    \cup { Vrt(i, s, BadDigest, ba, <<>>) :
             i \in {"R1", DefaultPrefix}, s \in (0..MaxSn) \cup {15, 16},
             ba \in {<<>>, <<"B2">>} }

\* seal.serialize()
SealSerialize ==
    /\ \E seal \in EventSealInputs :
         /\ event' = seal
         /\ result' = AttachedEventSeal_serialize(seal)
    /\ before' = [call |-> "serialize"]
    /\ returned' = NoCall
    /\ UNCHANGED <<management_events, vc_events, state, vc_state, tel_state,
                   tel, variant>>

\* text.parse::<AttachedEventSeal>() of the bytes just serialized, whole or
\* past their first byte
SealParse ==
    /\ before # NoCall
    /\ before.call \in {"serialize", "from_str"}
    /\ \E s \in {result.state, Tail(result.state)} :
         /\ before' = [call |-> "from_str", s |-> s]
         /\ returned' = from_str(s)
    /\ UNCHANGED <<management_events, vc_events, state, vc_state, tel_state,
                   event, result, tel, variant>>

\* VerifiableTelEvent::new(event, seal).serialize()
VerifiableSerialize ==
    /\ \E e \in VerifiableInputs, seal \in EventSealInputs :
         /\ event' = VerifiableEvent(e, seal)
         /\ result' = VerifiableTelEvent_serialize(event')
    /\ before' = [call |-> "VerifiableEvent::serialize"]
    /\ returned' = NoCall
    /\ UNCHANGED <<management_events, vc_events, state, vc_state, tel_state,
                   tel, variant>>

\* ManagerTelEvent::new(prefix, sn, event_type, format)?.serialize()
NewEvent ==
    /\ \E e \in NewInputs :
         /\ event' = ManagerTelEvent_new(e, "JSON")
         /\ result' = Ok(ManagerTelEvent_serialize(event'))
    /\ before' = [call |-> "new"]
    /\ returned' = NoCall
    /\ UNCHANGED <<management_events, vc_events, state, vc_state, tel_state,
                   tel, variant>>

\* sequence numbers over the whole of u64, by their big-endian bytes: the
\* small ones, the ones around a change of a Base64 character, of a byte and
\* of the upper half, and the largest
SnBytesInputs ==
    { to_be_bytes(n) : n \in (0..(MaxSn + 2)) \cup {63, 64, 255, 256, 65535, 65536} }
    \cup { <<0, 0, 0, 1, 0, 0, 0, 0>>, <<0, 0, 0, 1, 0, 0, 0, 1>>,
           <<1, 0, 0, 0, 0, 0, 0, 0>>, <<128, 0, 0, 0, 0, 0, 0, 0>>,
           <<255, 255, 255, 255, 255, 255, 255, 254>>,
           <<255, 255, 255, 255, 255, 255, 255, 255>> }

\* num_to_base_64(sn)
EncodeSn ==
    /\ \E be \in SnBytesInputs :
         /\ before' = [call |-> "num_to_base_64", sn |-> be]
         /\ result' = Ok(num_to_base_64_be(be))
    /\ returned' = NoCall
    /\ event' = NoCall
    /\ UNCHANGED <<management_events, vc_events, state, vc_state, tel_state,
                   tel, variant>>

NextCodec ==
    SealSerialize \/ SealParse \/ VerifiableSerialize \/ NewEvent \/ EncodeSn

SpecCodec == InitDb /\ [][NextCodec]_vars

---------------------------------------------------------------------------
(* A caller that generates two rotations from the state it holds and       *)
(* applies them, in either order, other rotations in between or not        *)

\* the backers two rotations are generated with
GeneratorChoices == { << <<>>, <<>> >>, << <<"B2">>, <<>> >>, << <<"B3">>, <<"B1">> >> }

\* none of the two generated rotations was applied yet
NotApplied == [t |-> "applied", r |-> <<NoCall, NoCall>>]

\* the caller incepts its registry, with backers or without
GenIncept ==
    /\ state = DefaultManagerTelState
    /\ \E c \in {<<>>, <<"NB">>} :
         LET e == make_inception_event("I1", c, 0, <<"B1">>)
             r == apply_to(e.body, state)
         IN  /\ event' = e
             /\ state' = IF r.ok THEN r.state ELSE state
    /\ UNCHANGED <<management_events, vc_events, returned, vc_state, tel_state,
                   before, result, tel, variant>>

\* make_rotation_event(&state, ba, br, ..) twice against the same state
GenerateTwo ==
    /\ state # DefaultManagerTelState
    /\ state.sn < MaxSn
    /\ IF result = NoCall THEN TRUE
       ELSE returned.r[1] # NoCall /\ returned.r[2] # NoCall
    /\ \E c1 \in GeneratorChoices, c2 \in GeneratorChoices :
         result' = [t |-> "made",
                    events |-> << make_rotation_event(state, c1[1], c1[2]),
                                  make_rotation_event(state, c2[1], c2[2]) >>]
    /\ before' = state
    /\ returned' = NotApplied
    /\ UNCHANGED <<management_events, vc_events, state, vc_state, tel_state,
                   event, tel, variant>>

\* one of the two generated rotations is applied to the state of the registry
ApplyGenerated ==
    /\ result # NoCall
    /\ \E k \in {1, 2} :
         /\ returned.r[k] = NoCall
         /\ LET r == apply_to(result.events[k].body, state)
            IN  /\ returned' = [returned EXCEPT !.r[k] = r]
                /\ state' = IF r.ok THEN r.state ELSE state
                /\ event' = result.events[k]
    /\ UNCHANGED <<management_events, vc_events, vc_state, tel_state, before,
                   result, tel, variant>>

\* a rotation generated from the current state is applied at once
ApplyFresh ==
    /\ result # NoCall
    /\ state.sn < MaxSn
    /\ LET e == make_rotation_event(state, <<"B4">>, <<>>)
           r == apply_to(e.body, state)
       IN  /\ event' = e
           /\ state' = IF r.ok THEN r.state ELSE state
    /\ UNCHANGED <<management_events, vc_events, returned, vc_state, tel_state,
                   before, result, tel, variant>>

NextGen == GenIncept \/ GenerateTwo \/ ApplyGenerated \/ ApplyFresh

SpecGen == InitDb /\ [][NextGen]_vars

---------------------------------------------------------------------------
(* Two process calls on one registry at the same time, each with a         *)
(* rotation generated from the same state: their appends and folds in      *)
(* every interleaving                                                      *)

\* the two calls before either has started
TwoReady == [t |-> "calls", pc |-> <<"ready", "ready">>, ret |-> <<NoCall, NoCall>>]

\* the registry is incepted by one process call, alone
RaceIncept ==
    /\ Stored = 0
    /\ \E c \in {<<>>, <<"NB">>} :
         LET ve == VerifiableEvent(make_inception_event("I1", c, 0, <<"B1">>),
                                   DummySourceSeal)
         IN  /\ management_events' =
                   add_new_event(management_events, ve, ve.event.body.i)
             /\ event' = ve
    /\ UNCHANGED <<vc_events, returned, state, vc_state, tel_state, before,
                   result, tel, variant>>

\* both clients read the state of the registry and generate their rotation
RaceGenerate ==
    /\ Stored + 2 <= MaxEvents
    /\ IF result = NoCall THEN TRUE
       ELSE returned.pc[1] = "returned" /\ returned.pc[2] = "returned"
    /\ \E id \in RegistryIds :
         LET st == get_management_tel_state(management_events, id)
         IN  /\ st.ok
             /\ st.state # DefaultManagerTelState
             /\ st.state.sn < MaxSn
             /\ before' = st.state
             /\ \E c1 \in GeneratorChoices, c2 \in GeneratorChoices :
                  result' = [t |-> "made",
                             events |-> << make_rotation_event(st.state, c1[1], c1[2]),
                                           make_rotation_event(st.state, c2[1], c2[2]) >>]
    /\ returned' = TwoReady
    /\ UNCHANGED <<management_events, vc_events, state, vc_state, tel_state,
                   event, tel, variant>>

\* EventProcessor::process of call k, first half: the append, whose error is
\* returned at once
RaceAppend ==
    /\ result # NoCall
    /\ \E k \in {1, 2}, fails \in BOOLEAN :
         LET ve == VerifiableEvent(result.events[k], DummySourceSeal)
             added == try_add_new_event(management_events, ve, ve.event.body.i, fails)
         IN  /\ returned.pc[k] = "ready"
             /\ IF added.ok
                THEN /\ management_events' = added.state
                     /\ returned' = [returned EXCEPT !.pc[k] = "appended"]
                ELSE /\ UNCHANGED management_events
                     /\ returned' = [returned EXCEPT !.pc[k] = "returned",
                                                     !.ret[k] = added]
             /\ event' = ve
    /\ UNCHANGED <<vc_events, state, vc_state, tel_state, before, result, tel,
                   variant>>

\* EventProcessor::process of call k, second half: the fold of the stream as
\* it is now, returned
RaceFold ==
    /\ result # NoCall
    /\ \E k \in {1, 2} :
         /\ returned.pc[k] = "appended"
         /\ returned' =
              [returned EXCEPT
                 !.pc[k] = "returned",
                 !.ret[k] = StateOf("Management",
                                    get_management_tel_state(
                                        management_events, result.events[k].body.i))]
    /\ UNCHANGED <<management_events, vc_events, state, vc_state, tel_state,
                   before, event, result, tel, variant>>

NextRace == RaceIncept \/ RaceGenerate \/ RaceAppend \/ RaceFold

SpecRace == InitDb /\ [][NextRace]_vars

---------------------------------------------------------------------------
(* Properties of the persisted management streams (Spec) *)

Body(stream, k) == stream[k].event.body

\* C1 as stated: every persisted management stream, whatever process
\* returned for its events, starts with a Vcp of sn 0 and continues with Vrts
\* whose sn is one more than their predecessor's.
C1_EveryStreamIsChain ==
    \A id \in StreamIds :
        LET stream == management_events[id]
        IN  stream # <<>> =>
              /\ Body(stream, 1).t = "vcp"
              /\ Body(stream, 1).s = 0
              /\ \A k \in 2..Len(stream) :
                    /\ Body(stream, k).t = "vrt"
                    /\ Body(stream, k).s = Body(stream, k - 1).s + 1

\* C1 amended: every persisted management stream whose fold succeeds starts
\* with a Vcp (its own s field is not checked; the state it yields has sn 0)
\* and continues with Vrts, the k-th of them carrying sn k.
C1_FoldedStreamIsChain ==
    \A id \in StreamIds :
        LET stream == management_events[id]
        IN  (stream # <<>> /\ get_management_tel_state(management_events, id).ok)
            => /\ Body(stream, 1).t = "vcp"
               /\ \A k \in 2..Len(stream) :
                     /\ Body(stream, k).t = "vrt"
                     /\ Body(stream, k).s = k - 1

C1_Witness ==
    \E id \in StreamIds :
        /\ Len(management_events[id]) >= 3
        /\ get_management_tel_state(management_events, id).ok
        /\ returned.ok

\* a stream E0..En every event of which is legal after its predecessors
ValidStream(stream) ==
    /\ Body(stream, 1).t = "vcp"
    /\ Len(stream) >= 2 => ~Contains(Body(stream, 1).c, "NB")
    /\ \A k \in 2..Len(stream) :
          /\ Body(stream, k).t = "vrt"
          /\ Body(stream, k).s = k - 1
          /\ Body(stream, k).p = Derive(Serialize(Body(stream, k - 1)))

\* C10: for a valid management stream E0..En the fold succeeds with sn = n
\* and last = the serialized bytes of En; an identifier with no persisted
\* event folds to the default state.
C10_FoldOfValidStream ==
    \A id \in StreamIds :
        LET stream == management_events[id]
            folded == get_management_tel_state(management_events, id)
        IN  /\ stream = <<>> => folded = Ok(DefaultManagerTelState)
            /\ (stream # <<>> /\ ValidStream(stream))
               => /\ folded.ok
                  /\ folded.state.sn = Len(stream) - 1
                  /\ folded.state.last = Serialize(Body(stream, Len(stream)))

C10_Witness ==
    \E id \in StreamIds :
        /\ Len(management_events[id]) >= 3
        /\ ValidStream(management_events[id])
        /\ returned = StateOf("Management",
                              get_management_tel_state(management_events, id))

---------------------------------------------------------------------------
(* Properties of ManagerTelEvent::apply_to (SpecApply) *)

BacklessError == Err("Trying to update backers of backerless state")
PreviousError == Err("Previous event doesn't match")
SequenceError == Err("Improper event sn")
ImproperStateError == Err("Improper manager state")

\* C2 as stated: a Vrt succeeds only if p binds state.last, and whenever p
\* does not bind the result is the previous-mismatch error.
C2_UnboundIsPreviousMismatch ==
    event.t = "vrt" =>
        /\ result.ok => VerifyBinding(event.p, before.last)
        /\ ~VerifyBinding(event.p, before.last) => result = PreviousError

\* C2 amended: a Vrt succeeds only if p binds state.last; whenever p does not
\* bind, apply returns an error and no state: the previous-mismatch error
\* when sn = state.sn + 1, the sequence error otherwise.
C2_UnboundIsRejected ==
    event.t = "vrt" =>
        /\ result.ok => VerifyBinding(event.p, before.last)
        /\ ~VerifyBinding(event.p, before.last) =>
              result = (IF before.sn + 1 = event.s THEN PreviousError
                        ELSE SequenceError)

\* a legal Vcp then Vrt, one byte of the stored last flipped, the next Vrt
C2_Witness ==
    /\ event.t = "vrt"
    /\ before.sn = 1
    /\ Contains(before.last, Flipped)
    /\ result = PreviousError

\* the old backers without the members of br, order kept
RECURSIVE Without(_, _)
Without(xs, br) ==
    IF xs = <<>> THEN <<>>
    ELSE (IF Contains(br, Head(xs)) THEN <<>> ELSE <<Head(xs)>>)
         \o Without(Tail(xs), br)

\* C5: a Vrt applied to a state with backers Some(old) yields old without
\* the members of br, followed by ba.
C5_BackersRemovedThenAppended ==
    (event.t = "vrt" /\ result.ok) =>
        result.state.backers = Some(Without(before.backers.v, event.br) \o event.ba)

\* C6 as stated: a Vcp with "NB" yields backers None, and every later Vrt on
\* that registry fails with the backerless-rotation error.
C6_EveryRotationIsBackerless ==
    /\ (event.t = "vcp" /\ result.ok /\ Contains(event.c, "NB"))
       => result.state.backers = None
    /\ (event.t = "vrt" /\ before.last # <<>> /\ before.backers = None)
       => result = BacklessError

\* C6 amended: a Vcp with "NB" yields backers None; every later Vrt on that
\* registry fails, with the backerless-rotation error when its sn is
\* state.sn + 1 and its p binds, and with the sequence or previous-mismatch
\* error checked before it otherwise; the backers stay None.
C6_BackerlessNeverRotates ==
    /\ (event.t = "vcp" /\ result.ok /\ Contains(event.c, "NB"))
       => result.state.backers = None
    /\ (event.t = "vrt" /\ before.last # <<>> /\ before.backers = None)
       => /\ ~result.ok
          /\ (before.sn + 1 = event.s /\ VerifyBinding(event.p, before.last))
             => result = BacklessError
          /\ state.backers = None

C6_Witness ==
    /\ event.t = "vrt"
    /\ before.last # <<>>
    /\ before.backers = None
    /\ result = BacklessError

\* C7: a Vcp is accepted exactly on the default state; no successful apply
\* yields the default state, so a Vcp after one is the improper-state error.
C7_VcpOnlyOnDefault ==
    /\ (event.t \in {"vcp", "vrt"} /\ result.ok)
       => result.state # DefaultManagerTelState
    /\ event.t = "vcp" =>
          /\ result.ok <=> before = DefaultManagerTelState
          /\ ~result.ok => result = ImproperStateError

\* a second inception after an inception whose fields were all defaults
C7_Witness ==
    /\ event.t = "vcp"
    /\ before.issuer = DefaultPrefix
    /\ before.last # <<>>
    /\ result = ImproperStateError

\* C8: a Vrt whose sn is not state.sn + 1 is the sequence error.
C8_WrongSnIsSequenceError ==
    (event.t = "vrt" /\ event.s # before.sn + 1) => result = SequenceError

\* sn = 10 against a state at sn = 1, p binding, the registry with backers
C8_Witness ==
    /\ event.t = "vrt"
    /\ event.s = FarSn
    /\ before.sn = 1
    /\ before.backers.some
    /\ VerifyBinding(event.p, before.last)
    /\ result = SequenceError

\* C9: a Vcp applied to the default state yields sn 0, last = its bytes,
\* issuer = ii, prefix = i, backers None if "NB" is in c, else Some(b).
C9_InceptionState ==
    (event.t = "vcp" /\ before = DefaultManagerTelState) =>
        result = Ok([prefix |-> event.i, sn |-> 0, last |-> Serialize(event),
                     issuer |-> event.ii,
                     backers |-> IF \E k \in 1..Len(event.c) : event.c[k] = "NB"
                                 THEN None ELSE Some(event.b)])

\* an inception with backers whose own s field is not 0
C9_Witness ==
    /\ event.t = "vcp"
    /\ before = DefaultManagerTelState
    /\ event.s = 1
    /\ result.ok
    /\ result.state.backers = Some(<<"B1", "B2">>)

---------------------------------------------------------------------------
(* Properties of TelState::apply (SpecVc) *)

Rank(st) == CASE st.tag = "NotIsuued" -> 0
              [] st.tag = "Issued" -> 1
              [] st.tag = "Revoked" -> 2

IsVcEvent == event.t \in {"iss", "bis", "rev", "brv"}

\* C3: the only successful transitions are NotIssued -> Issued on Iss/Bis and
\* Issued -> Revoked on Rev/Brv; every success moves one step forward, so at
\* most one issuance and one revocation succeed and no state is revisited;
\* Revoked accepts nothing.
C3_TransitionGraph ==
    IsVcEvent =>
        /\ result.vc.ok =>
              /\ vc_state = result.vc.state
              /\ Rank(vc_state) = Rank(before.vc) + 1
              /\ (event.t \in {"iss", "bis"}) <=> (before.vc = NotIsuued)
              /\ (event.t \in {"rev", "brv"}) <=> (before.vc.tag = "Issued")
        /\ ~result.vc.ok => vc_state = before.vc
        /\ before.vc = Revoked => result.vc = Err("Wrong state")

\* a revocation sent again to the VC it revoked
C3_Witness ==
    /\ event.t = "brv"
    /\ event.p # BadDigest
    /\ before.vc = Revoked
    /\ result.vc = Err("Wrong state")

\* C4: a Rev or Brv moves Issued(last) to Revoked iff its p binds last, the
\* serialized bytes of the issuance; one that does not bind is the
\* previous-mismatch error and the VC stays Issued.  Stated of both variants
\* of TelState::apply (for vc_tel.rs: revoked only by an event that binds the
\* bytes the vc_state.rs variant keeps).
C4_RevocationBinds ==
    (IsVcEvent /\ event.t \in {"rev", "brv"} /\ before.vc.tag = "Issued") =>
        /\ result.vc.ok <=> VerifyBinding(event.p, before.vc.last)
        /\ result.vc.ok => vc_state = Revoked
        /\ ~result.vc.ok => result.vc = PreviousError /\ vc_state = before.vc
        /\ (before.tel.tag = "Issued" /\ result.tel.ok)
           => VerifyBinding(event.p, before.vc.last)

---------------------------------------------------------------------------
(* Properties of EventProcessor::process (Spec) *)

\* the stream a verifiable event is appended to, as it is in the database
StreamOf(ve) ==
    IF ve.event.class = "Management" THEN management_events[ve.event.body.i]
    ELSE vc_events[ve.event.body.i]

\* the result of applying the event to the fold of a stream of its class
AppliedTo(stream, ve) ==
    LET folded == IF ve.event.class = "Management"
                  THEN FoldManagement(stream, Ok(DefaultManagerTelState))
                  ELSE FoldVc(stream, Ok(NotIsuued))
    IN  IF ~folded.ok THEN folded
        ELSE IF ve.event.class = "Management"
             THEN apply_to(ve.event.body, folded.state)
             ELSE TelState_apply(folded.state, ve.event.body)

---------------------------------------------------------------------------
(* Properties of the Tel facade (SpecTel) *)

\* a step in which Tel::process was called: every call appends an event
ProcessStep ==
    management_events' # management_events \/ vc_events' # vc_events

\* C12 as stated: a process call changes tel_prefix only when its event is a
\* Vcp, and an accepted Vcp met with the default tel_prefix sets it to its i.
C12_LatchedAtFirstVcp ==
    [][ ProcessStep =>
          LET e == event'.event
          IN  /\ (tel.tel_prefix = DefaultPrefix /\ returned'.ok
                  /\ e.class = "Management" /\ e.body.t = "vcp")
                 => tel'.tel_prefix = e.body.i
              /\ tel'.tel_prefix # tel.tel_prefix
                 => (e.class = "Management" /\ e.body.t = "vcp"
                     /\ tel'.tel_prefix = e.body.i) ]_vars

\* C12 amended: tel_prefix is the default until the first process call that
\* returns Ok for a management event whose i is not the default (a Vcp, or a
\* Vrt extending a registry the database held when the facade was created);
\* that call sets it to the event's i, and it keeps that value; a call that
\* returns an error, or a VC event, leaves the default in place.
C12_LatchedAtFirstAccepted ==
    [][ ProcessStep =>
          LET e == event'.event
              accepted == /\ returned'.ok
                          /\ e.class = "Management"
                          /\ e.body.i # DefaultPrefix
          IN  /\ (tel.tel_prefix = DefaultPrefix /\ accepted)
                 => tel'.tel_prefix = e.body.i
              /\ (tel.tel_prefix = DefaultPrefix /\ ~accepted)
                 => tel'.tel_prefix = DefaultPrefix
              /\ tel.tel_prefix # DefaultPrefix
                 => tel'.tel_prefix = tel.tel_prefix ]_vars

\* an inception with the default prefix was accepted and left tel_prefix the
\* default; the registry R2 was incepted and rotated, and tel_prefix is R2
C12_Witness ==
    /\ management_events[DefaultPrefix] # <<>>
    /\ get_management_tel_state(management_events, DefaultPrefix).ok
    /\ tel.tel_prefix = "R2"
    /\ event # NoCall
    /\ event.event.class = "Management"
    /\ event.event.body.t = "vrt"
    /\ event.event.body.i = "R2"
    /\ returned.ok

\* C13: a process call changes no field of the facade other than tel_prefix,
\* and once tel_prefix is not the default no process call changes it.
C13_OnlyTelPrefixOnce ==
    [][ ProcessStep =>
          /\ DOMAIN tel' = DOMAIN tel
          /\ \A f \in DOMAIN tel \ {"tel_prefix"} : tel'[f] = tel[f]
          /\ tel.tel_prefix # DefaultPrefix => tel'.tel_prefix = tel.tel_prefix
      ]_vars

\* the facade of registry R1 accepted the inception of registry R2
C13_Witness ==
    /\ tel.tel_prefix = "R1"
    /\ event # NoCall
    /\ event.event.class = "Management"
    /\ event.event.body.t = "vcp"
    /\ event.event.body.i = "R2"
    /\ returned = Ok([class |-> "Management",
                      state |-> get_management_tel_state(management_events, "R2").state])
    /\ returned.state.state.prefix = "R2"

\* the database with the source seal of every event replaced by one seal
Resealed(db, seal) ==
    [id \in StreamIds |->
        [k \in 1..Len(db[id]) |-> VerifiableEvent(db[id][k].event, seal)]]

AnySeal == TelSealInputs

\* C14: what process returned and what every state query returns are what
\* they are in the run that processed the same events with any one source
\* seal attached to all of them; the seal an event came with is stored with
\* it and nothing else.
C14_SealIndependent ==
    \A seal \in AnySeal :
        LET m == Resealed(management_events, seal)
            v == Resealed(vc_events, seal)
        IN  /\ \A id \in StreamIds :
                  /\ get_management_tel_state(management_events, id)
                        = get_management_tel_state(m, id)
                  /\ get_vc_state(vc_events, id) = get_vc_state(v, id)
            /\ event # NoCall =>
                  /\ returned =
                        (IF event.event.class = "Management"
                         THEN StateOf("Management",
                                      get_management_tel_state(m, event.event.body.i))
                         ELSE StateOf("Tel", get_vc_state(v, event.event.body.i)))
                  /\ StreamOf(event)[Len(StreamOf(event))] = event

\* a registry whose inception and rotation came with different source seals,
\* both accepted
C14_Witness ==
    /\ Len(management_events["R2"]) = 2
    /\ management_events["R2"][1].seal # management_events["R2"][2].seal
    /\ event = management_events["R2"][2]
    /\ returned.ok
    /\ returned.state.state.sn = 1

\* a step in which the generator `call` of the facade returned
MakeStep(call) ==
    /\ <<before, result>>' # <<before, result>>
    /\ before' # NoCall
    /\ before'.call = call

\* C15: make_revoke_event(vc) returns the improper-VC-state error whenever
\* the VC state of vc is NotIssued or Revoked, returns a revocation event
\* only when it is Issued, and leaves every stream as it was.
C15_RevokeOnlyWhenIssued ==
    [][ MakeStep("make_revoke_event") =>
          LET vcst == Tel_get_vc_state(before'.vc)
          IN  /\ (vcst.ok /\ vcst.state.tag # "Issued")
                 => result' = ImproperVcStateError
              /\ result'.ok
                 => /\ vcst.ok
                    /\ vcst.state.tag = "Issued"
                    /\ result'.state.class = "Vc"
                    /\ result'.state.body.t \in {"rev", "brv"}
              /\ UNCHANGED <<management_events, vc_events>> ]_vars

\* the event the last generator call returned is the one being processed, and
\* the generator would return it again now: nothing was written in between
FreshlyMade(call, made) ==
    /\ ProcessStep
    /\ tel.tel_prefix # DefaultPrefix
    /\ before # NoCall
    /\ before.call = call
    /\ result = made
    /\ result.ok
    /\ event'.event = result.state

\* C16: through a facade that has processed a Vcp, the event
\* make_issuance_event(vc) returns for a vc not yet issued is accepted by
\* process and leaves the VC Issued, and the event make_revoke_event(vc) then
\* returns is accepted by process and leaves the VC Revoked.
C16_IssueThenRevokeAccepted ==
    [][ /\ (/\ before # NoCall
            /\ FreshlyMade("make_issuance_event",
                           Tel_make_issuance_event(before.vc))
            /\ Tel_get_vc_state(before.vc) = Ok(NotIsuued))
           => /\ returned'.ok
              /\ returned'.state.class = "Tel"
              /\ returned'.state.state.tag = "Issued"
        /\ (/\ before # NoCall
            /\ FreshlyMade("make_revoke_event",
                           Tel_make_revoke_event(before.vc))
            /\ Tel_get_vc_state(before.vc).ok
            /\ Tel_get_vc_state(before.vc).state.tag = "Issued")
           => returned' = Ok([class |-> "Tel", state |-> Revoked]) ]_vars

\* C17: make_rotation_event returns a Vrt with sn = state.sn + 1 and
\* p = Digest(state.last); applied to that state of a registry with backers
\* it succeeds and the new state's sn is state.sn + 1.
C17_RotationFollowsState ==
    [][ (MakeStep("make_rotation_event") /\ result'.ok) =>
          LET st == Tel_get_management_tel_state.state
              e == result'.state.body
          IN  /\ result'.state.class = "Management"
              /\ e.t = "vrt"
              /\ e.s = st.sn + 1
              /\ e.p = Derive(st.last)
              /\ st.backers.some
                 => /\ apply_to(e, st).ok
                    /\ apply_to(e, st).state.sn = st.sn + 1 ]_vars

\* C18: make_issuance_event returns a Bis with sn 0, the VC prefix derived
\* from the credential, and the registry anchor {state.prefix, state.sn,
\* Digest(state.last)}: the anchor names the last management event of the
\* registry's stream at the time of the call.
C18_IssuanceAnchorsLatest ==
    [][ (MakeStep("make_issuance_event") /\ result'.ok) =>
          LET st == Tel_get_management_tel_state.state
              stream == management_events[tel.tel_prefix]
              e == result'.state.body
          IN  /\ result'.state.class = "Vc"
              /\ e.t = "bis"
              /\ e.s = 0
              /\ e.i = VcPrefix(before'.vc)
              /\ e.ra = EventSeal(st.prefix, st.sn, Derive(st.last))
              /\ stream # <<>>
                 => /\ e.ra.prefix = Body(stream, Len(stream)).i
                    /\ e.ra.sn = Len(stream) - 1
                    /\ e.ra.event_digest =
                          Derive(Serialize(Body(stream, Len(stream)))) ]_vars

\* an issuance made after the registry R2 was rotated: its anchor carries
\* sn 1 and the digest of the rotation
C18_Witness ==
    /\ before # NoCall
    /\ before.call = "make_issuance_event"
    /\ tel.tel_prefix = "R2"
    /\ Len(management_events["R2"]) = 2
    /\ result = Tel_make_issuance_event(before.vc)
    /\ result.ok
    /\ result.state.body.ra.sn = 1
    /\ result.state.body.ra.event_digest =
          Derive(Serialize(Body(management_events["R2"], 2)))

---------------------------------------------------------------------------
(* Properties of the EventProcessor's queries (Spec) *)

\* the serialized verifiable events of a stream, one after the other
RECURSIVE Concatenated(_)
Concatenated(stream) ==
    IF stream = <<>> THEN <<>>
    ELSE Concatenated(SubSeq(stream, 1, Len(stream) - 1))
         \o VerifiableEvent_serialize(stream[Len(stream)])

IsPrefix(xs, ys) == Len(xs) <= Len(ys) /\ SubSeq(ys, 1, Len(xs)) = xs

\* C19: get_management_events and get_events return None for an identifier
\* nothing was persisted for, and otherwise the serialized verifiable events
\* of the identifier one after the other in the order they were processed:
\* each process call adds the bytes of its event at the end of the result
\* for its stream and leaves every other result as it was, so an earlier
\* result is a prefix of every later one.
C19_ConcatenationInOrder ==
    [][ \A id \in StreamIds :
          LET m == EventProcessor_get_management_events(management_events, id)
              mn == EventProcessor_get_management_events(management_events', id)
              v == EventProcessor_get_events(vc_events, id)
              vn == EventProcessor_get_events(vc_events', id)
              ve == event'
              hit(class) == ve.event.class = class /\ ve.event.body.i = id
          IN  /\ mn.some <=> management_events'[id] # <<>>
              /\ vn.some <=> vc_events'[id] # <<>>
              /\ mn.some => mn.v = Concatenated(management_events'[id])
              /\ vn.some => vn.v = Concatenated(vc_events'[id])
              /\ m.some => (mn.some /\ IsPrefix(m.v, mn.v))
              /\ v.some => (vn.some /\ IsPrefix(v.v, vn.v))
              /\ mn = IF hit("Management")
                      THEN Some((IF m.some THEN m.v ELSE <<>>)
                                \o VerifiableEvent_serialize(ve))
                      ELSE m
              /\ vn = IF hit("Vc")
                      THEN Some((IF v.some THEN v.v ELSE <<>>)
                                \o VerifiableEvent_serialize(ve))
                      ELSE v ]_vars

\* a VC stream of an issuance and a revocation, a registry with one event
\* and a registry with none
C19_Witness ==
    /\ Len(vc_events["V1"]) = 2
    /\ Body(vc_events["V1"], 1).t = "bis"
    /\ Body(vc_events["V1"], 2).t = "brv"
    /\ EventProcessor_get_events(vc_events, "V1")
          = Some(VerifiableEvent_serialize(vc_events["V1"][1])
                 \o VerifiableEvent_serialize(vc_events["V1"][2]))
    /\ EventProcessor_get_management_events(management_events, "R1").some
    /\ EventProcessor_get_management_events(management_events, "R2") = None

\* the last process call was for a management event and returned Ok
ManagementAccepted ==
    /\ event # NoCall
    /\ event.event.class = "Management"
    /\ returned.ok

\* C20 as stated: after a management event with sn n was processed
\* successfully for a registry, get_management_event_at_sn(id, n) returns
\* that verifiable event.
C20_LookupReturnsProcessed ==
    ManagementAccepted =>
        get_management_event_at_sn(management_events, event.event.body.i,
                                   event.event.body.s) = Some(event)

\* C20 amended: after a management event with sn n was processed
\* successfully for a registry, get_management_event_at_sn(id, n) returns the
\* first event of the stream in append order whose sn is n, with the seal it
\* was stored with: the event just processed, unless the registry's Vcp
\* itself carries sn n, and then the Vcp.
C20_LookupReturnsFirstAtSn ==
    ManagementAccepted =>
        LET stream == management_events[event.event.body.i]
            n == event.event.body.s
            found == get_management_event_at_sn(management_events,
                                                event.event.body.i, n)
        IN  /\ found.some
            /\ \E k \in 1..Len(stream) :
                  /\ stream[k] = found.v
                  /\ Body(stream, k).s = n
                  /\ \A j \in 1..(k - 1) : Body(stream, j).s # n
            /\ found.v = IF Body(stream, 1).s = n THEN stream[1] ELSE event

\* an inception carrying sn 1 was accepted, then the rotation with sn 1: the
\* lookup at 1 returns the inception
C20_Witness ==
    /\ ManagementAccepted
    /\ event.event.body.t = "vrt"
    /\ event.event.body.s = 1
    /\ Body(management_events[event.event.body.i], 1).s = 1
    /\ get_management_event_at_sn(management_events, event.event.body.i, 1)
          = Some(management_events[event.event.body.i][1])

---------------------------------------------------------------------------
(* Properties of the queries and of process beside them (SpecDb) *)

\* a step of the reader: only queries change what the reader holds
QueryStep == before' # before

\* a query returns in this step
QueryReturns == before # NoCall /\ before' = NoCall

\* what the query would return from the streams persisted now
FromPersisted(call, id) ==
    IF call = "get_management_tel_state"
    THEN get_management_tel_state(management_events, id)
    ELSE get_vc_state(vc_events, id)

\* C21: the state queries are read-only and deterministic: no step of a
\* query changes any stream; a query whose stream was not appended to since
\* it was read returns the fold of the persisted stream; and a query
\* returns what the query before it returned for the same identifier when
\* no process call came between them
C21_QueriesReadOnlyDeterministic ==
    [][ QueryStep =>
          /\ UNCHANGED <<management_events, vc_events>>
          /\ QueryReturns =>
               /\ before.events = get_events(QueriedKeyspace(before.call), before.id)
                    => result'.ret = FromPersisted(before.call, before.id)
               /\ ( /\ result # NoCall
                    /\ result.call = before.call
                    /\ result.id = before.id
                    /\ result.events = before.events )
                    => result'.ret = result.ret ]_vars

\* a query has returned the state of a registry with events, and the same
\* query is about to return again with no process call in between
C21_Witness ==
    /\ result # NoCall
    /\ before # NoCall
    /\ result.call = before.call
    /\ result.id = before.id
    /\ result.events = before.events
    /\ before.events.some
    /\ result.ret.ok

\* a process call starts in this step
ProcessStarts == returned # InFlight /\ ~QueryStep

\* a process call returns in this step
ProcessReturns == returned = InFlight /\ ~QueryStep

\* the stream the event of the process call belongs to, and its fold
ProcessedStream == KeyspaceOf(event.event.class)[event.event.body.i]

ProcessedFold ==
    IF event.event.class = "Management"
    THEN StateOf("Management",
                 get_management_tel_state(management_events, event.event.body.i))
    ELSE StateOf("Tel", get_vc_state(vc_events, event.event.body.i))

\* C26: process never returns Ok when the append failed or when the fold
\* failed: a failed append returns the storage error at once, no state
\* computed and no stream changed; after a successful append the call
\* returns Ok only with the event last in its stream and the fold of the
\* stream Ok, and returns the error of the fold when the fold fails
C26_NeverOkOnFailure ==
    [][ /\ ProcessStarts =>
             /\ UNCHANGED <<management_events, vc_events>> => returned' = StorageError
             /\ returned' # StorageError =>
                  /\ returned' = InFlight
                  /\ <<management_events, vc_events>>' # <<management_events, vc_events>>
        /\ ProcessReturns =>
             /\ UNCHANGED <<management_events, vc_events>>
             /\ returned' = ProcessedFold
             /\ returned'.ok =>
                  /\ ProcessedStream # <<>>
                  /\ ProcessedStream[Len(ProcessedStream)] = event
             /\ ~ProcessedFold.ok => ~returned'.ok ]_vars

\* a process call has returned the storage error of its append, after
\* another returned the validation error of a rotation it persisted
C26_Witness ==
    /\ returned = StorageError
    /\ management_events["R1"] # <<>>
    /\ ~get_management_tel_state(management_events, "R1").ok
    /\ ProcessedStream = <<>>

\* a sequence without its last element
Front(s) == SubSeq(s, 1, Len(s) - 1)

\* the fold a query makes of a sequence of events
FoldOf(call, events) ==
    IF call = "get_management_tel_state"
    THEN FoldManagement(events, Ok(DefaultManagerTelState))
    ELSE FoldVc(events, Ok(NotIsuued))

\* the stream a query in flight asked for, as persisted now
QueriedStream == QueriedKeyspace(before.call)[before.id]

\* the process call in flight appended to the stream the query asked for
SameStream ==
    /\ returned = InFlight
    /\ (event.event.class = "Management") = (before.call = "get_management_tel_state")
    /\ event.event.body.i = before.id

\* C27: a query that runs beside one process call on the same identifier
\* returns the fold of the stream before the append or the fold of the
\* stream after it, the appended event whole: never anything else
C27_PreOrPostAppend ==
    [][ QueryReturns =>
          /\ result'.ret \in
               {FoldOf(before.call, QueriedStream)} \cup
               (IF QueriedStream # <<>>
                THEN {FoldOf(before.call, Front(QueriedStream))} ELSE {})
          /\ SameStream =>
               result'.ret \in
                 { FoldOf(before.call, Front(QueriedStream)),
                   FoldOf(before.call, Append(Front(QueriedStream), event)) } ]_vars

\* a query that read the stream of R1 before an accepted append to it has
\* returned while the process call was still in flight
C27_Witness ==
    /\ returned = InFlight
    /\ result # NoCall
    /\ result.call = "get_management_tel_state"
    /\ event.event.class = "Management"
    /\ event.event.body.i = result.id
    /\ result.events # get_events(management_events, result.id)
    /\ result.ret # get_management_tel_state(management_events, result.id)

\* a database holding the stream of one identifier and nothing else
Alone(db, id) == [j \in StreamIds |-> IF j = id THEN db[j] ELSE <<>>]

\* C28: the streams are isolated: a process call changes no stream but the
\* one of its event's class and prefix, so neither the management state of
\* another registry nor the state of any VC (one whose prefix is the
\* registry's included) moves with a management event, and no management
\* stream nor other VC moves with a VC event; and every process call returns
\* what it would return had the events of its identifier been processed alone
C28_StreamsIsolated ==
    [][ /\ ProcessStarts =>
             LET id == event'.event.body.i
                 class == event'.event.class
             IN  /\ \A j \in StreamIds :
                       /\ (class # "Management" \/ j # id) =>
                            /\ management_events'[j] = management_events[j]
                            /\ get_management_tel_state(management_events', j)
                                 = get_management_tel_state(management_events, j)
                       /\ (class # "Vc" \/ j # id) =>
                            /\ vc_events'[j] = vc_events[j]
                            /\ get_vc_state(vc_events', j) = get_vc_state(vc_events, j)
        /\ ProcessReturns =>
             LET id == event.event.body.i
             IN  returned' =
                   IF event.event.class = "Management"
                   THEN StateOf("Management",
                                get_management_tel_state(Alone(management_events, id), id))
                   ELSE StateOf("Tel", get_vc_state(Alone(vc_events, id), id)) ]_vars

\* the VC whose prefix is registry R1's was issued beside R1's own events,
\* another registry holds events too, and the registry's state is intact
C28_Witness ==
    /\ vc_events["R1"] # <<>>
    /\ management_events["R1"] # <<>>
    /\ management_events["R2"] # <<>>
    /\ returned \notin {NoCall, InFlight}
    /\ returned.ok
    /\ returned.state.class = "Tel"
    /\ event.event.body.i = "R1"
    /\ get_management_tel_state(management_events, "R1").ok

---------------------------------------------------------------------------
(* Properties of folded management streams (Spec) *)

\* the fold of the first k events of a stream
FoldedUpTo(stream, k) ==
    FoldManagement(SubSeq(stream, 1, k), Ok(DefaultManagerTelState))

\* C22: a rotation that is applied successfully changes only sn, last and
\* backers: whatever number of rotations a registry's stream folds through,
\* the state's prefix and issuer are those the inception gave it
C22_RotationKeepsPrefixIssuer ==
    \A id \in RegistryIds :
      \A k \in 1..Len(management_events[id]) :
        LET inception == FoldedUpTo(management_events[id], 1)
            rotated == FoldedUpTo(management_events[id], k)
        IN  rotated.ok =>
              /\ rotated.state.prefix = inception.state.prefix
              /\ rotated.state.issuer = inception.state.issuer
              /\ rotated.state.prefix = management_events[id][1].event.body.i
              /\ rotated.state.issuer = management_events[id][1].event.body.ii

\* a registry's stream folds through two rotations that changed sn, last
\* and backers
C22_Witness ==
    \E id \in RegistryIds :
      /\ Len(management_events[id]) = 3
      /\ FoldedUpTo(management_events[id], 3).ok
      /\ FoldedUpTo(management_events[id], 3).state.sn = 2
      /\ FoldedUpTo(management_events[id], 3).state.issuer = "I1"
      /\ FoldedUpTo(management_events[id], 3).state.backers
           # FoldedUpTo(management_events[id], 1).state.backers

---------------------------------------------------------------------------
(* Properties of the wire codec (SpecCodec) *)

\* C23: parsing accepts the bytes of every serialized attached seal and
\* recovers the seal that was serialized: parse(serialize(seal)) = seal
C23_ParseRecoversSeal ==
    ( /\ before # NoCall
      /\ before.call = "from_str"
      /\ Ok(before.s) = AttachedEventSeal_serialize(event) )
    => returned = Ok(AttachedEventSeal(event))

\* the framing of a seal: "-eAB", prefix text, "0A", the 22 characters of
\* the sn, digest text
SealFraming(seal) ==
    <<"-", "e", "A", "B", seal.prefix, "0", "A">>
    \o num_to_base_64(seal.sn) \o seal.event_digest

\* the bytes of the event of a verifiable event
EventBytes(ve) ==
    IF ve.event.class = "Management" THEN Serialize(ve.event.body)
    ELSE SerializeVc(ve.event.body)

\* C24: the wire form of a verifiable event is the event bytes immediately
\* followed by the seal framing, no separator byte between the event and
\* the seal nor between the parts of the seal
C24_WireFormNoSeparator ==
    (before # NoCall /\ before.call = "VerifiableEvent::serialize")
    => result = Ok(EventBytes(event) \o SealFraming(event.seal))

\* C25: an event built by the two-pass constructor carries a header whose
\* size field is the byte length of the event's final serialization
C25_SizeIsEncodedLength ==
    (before # NoCall /\ before.call = "new")
    => event.serialization_info.size = ByteLen(result.state)

\* an inception with a two-digit sn and two backers was constructed, its
\* size the length of its bytes and larger than the header alone
C25_Witness ==
    /\ before # NoCall
    /\ before.call = "new"
    /\ event.body.t = "vcp"
    /\ event.body.s = 16
    /\ Len(event.body.b) = 2
    /\ event.serialization_info.size = ByteLen(result.state)
    /\ event.serialization_info.size > 17 + Len(event.body.i)
    /\ Len(result.state[2]) = 17

---------------------------------------------------------------------------
(* Properties of rejected events and of the lookup by sn (Spec) *)

\* C29: process persists before it validates: streams only grow, a call
\* that returns an error leaves its event last in the identifier's stream,
\* and once the fold of an identifier's stream fails, the state queries and
\* every later process call for that identifier return an error, whatever
\* is processed afterwards
C29_FailedFoldNeverRecovers ==
    [][ /\ \A id \in StreamIds :
             /\ IsPrefix(management_events[id], management_events'[id])
             /\ IsPrefix(vc_events[id], vc_events'[id])
             /\ ~get_management_tel_state(management_events, id).ok =>
                  /\ ~get_management_tel_state(management_events', id).ok
                  /\ (event'.event.class = "Management" /\ event'.event.body.i = id)
                       => ~returned'.ok
             /\ ~get_vc_state(vc_events, id).ok =>
                  /\ ~get_vc_state(vc_events', id).ok
                  /\ (event'.event.class = "Vc" /\ event'.event.body.i = id)
                       => ~returned'.ok
        /\ ~returned'.ok =>
             LET stream == IF event'.event.class = "Management"
                           THEN management_events'[event'.event.body.i]
                           ELSE vc_events'[event'.event.body.i]
             IN  stream # <<>> /\ stream[Len(stream)] = event' ]_vars

\* a registry's stream holds a rejected rotation, then an inception that
\* alone would be accepted, then one more event: the last call returned an
\* error and the query returns an error
C29_Witness ==
    \E id \in RegistryIds :
      /\ Len(management_events[id]) = 3
      /\ ~FoldedUpTo(management_events[id], 1).ok
      /\ management_events[id][2].event.body.t = "vcp"
      /\ apply_to(management_events[id][2].event.body, DefaultManagerTelState).ok
      /\ event = management_events[id][3]
      /\ ~returned.ok
      /\ ~get_management_tel_state(management_events, id).ok

\* the sns looked up
LookupSns == 0..(MaxSn + 1)

\* a registry whose stream folds successfully
FoldsOk(id) ==
    /\ management_events[id] # <<>>
    /\ get_management_tel_state(management_events, id).ok

\* C30 as stated: for a registry whose stream folds successfully to sn = n,
\* the lookup at k returns the (k+1)-th appended event for k in 0..n and
\* None for k > n, whatever s the Vcp carried
C30_LookupByPosition ==
    \A id \in RegistryIds :
      FoldsOk(id) =>
        LET n == get_management_tel_state(management_events, id).state.sn
        IN  \A k \in LookupSns :
              get_management_event_at_sn(management_events, id, k)
                = IF k <= n THEN Some(management_events[id][k + 1]) ELSE None

\* C30 amended: the lookup goes by the s the events carry, and the s of a
\* Vcp is never checked: the lookup at k returns the Vcp if the Vcp carries
\* s = k, otherwise the (k+1)-th appended event for k in 1..n, otherwise None
C30_LookupByCarriedSn ==
    \A id \in RegistryIds :
      FoldsOk(id) =>
        LET n == get_management_tel_state(management_events, id).state.sn
            stream == management_events[id]
        IN  /\ Len(stream) = n + 1
            /\ \A k \in LookupSns :
                 get_management_event_at_sn(management_events, id, k)
                   = IF stream[1].event.body.s = k THEN Some(stream[1])
                     ELSE IF 1 <= k /\ k <= n THEN Some(stream[k + 1])
                     ELSE None

\* a registry incepted with s = 0 and rotated twice: every event is found
\* at its position and nothing beyond
C30_Witness ==
    \E id \in RegistryIds :
      /\ FoldsOk(id)
      /\ get_management_tel_state(management_events, id).state.sn = 2
      /\ management_events[id][1].event.body.s = 0
      /\ \A k \in 0..2 :
            get_management_event_at_sn(management_events, id, k)
              = Some(management_events[id][k + 1])
      /\ get_management_event_at_sn(management_events, id, 3) = None

---------------------------------------------------------------------------
(* Further properties of ManagerTelEvent::apply_to (SpecApply) *)

\* C31: the error of a Vrt that breaks several conditions at once is decided
\* in the order sequence number, previous-event binding, backerless
\* registry: a wrong sn is the sequence error whatever else is wrong, and
\* a right sn with a non-binding p is previous-mismatch whatever the backers
C31_ErrorOrder ==
    event.t = "vrt" =>
        IF event.s # before.sn + 1 THEN result = SequenceError
        ELSE IF ~VerifyBinding(event.p, before.last) THEN result = PreviousError
        ELSE IF before.backers = None THEN result = BacklessError
        ELSE result.ok

\* a Vrt with a wrong sn and a non-binding p against an incepted backerless
\* registry was answered with the sequence error
C31_Witness ==
    /\ event.t = "vrt"
    /\ before.last # <<>>
    /\ before.backers = None
    /\ event.s # before.sn + 1
    /\ ~VerifyBinding(event.p, before.last)
    /\ result = SequenceError

\* C32: no state a successful apply produces is the default manager state,
\* whatever the fields of the event, because its last is the non-empty
\* serialization of an event; so a caller whose state has left the default
\* never has the default again, and every Vcp applied to it is rejected
C32_NeverDefaultAgain ==
    [][ /\ result'.ok =>
             /\ result'.state # DefaultManagerTelState
             /\ result'.state.last # <<>>
        /\ state # DefaultManagerTelState =>
             /\ state' # DefaultManagerTelState
             /\ (event'.t = "vcp" /\ before' = state) => ~result'.ok ]_vars

\* after an inception whose fields are all those of the default state (the
\* default issuer, "NB", sn 0), a second inception was rejected
C32_Witness ==
    /\ event.t = "vcp"
    /\ before.prefix = DefaultPrefix
    /\ before.issuer = DefaultPrefix
    /\ before.sn = 0
    /\ before.backers = None
    /\ before.last # <<>>
    /\ before # DefaultManagerTelState
    /\ ~result.ok
    /\ state = before

---------------------------------------------------------------------------
(* Properties of generated rotations (SpecGen) *)

\* the k-th of the two generated rotations was applied, and accepted
Accepted(k) == returned.r[k] # NoCall /\ returned.r[k].ok

\* C33: of two rotations generated from the same manager state at most one
\* is applied successfully, in whichever order they are applied: the one
\* accepted was applied to the state it was generated from, and the other
\* is then rejected with the sequence error
C33_AtMostOneGeneratedApplies ==
    result # NoCall =>
        /\ ~(Accepted(1) /\ Accepted(2))
        /\ \A k \in {1, 2} :
             Accepted(k) =>
               /\ returned.r[k] = apply_to(result.events[k].body, before)
               /\ returned.r[3 - k] # NoCall => returned.r[3 - k] = SequenceError

\* two different rotations were generated from one state; the second was
\* applied first and accepted, the first was then rejected
C33_Witness ==
    /\ result # NoCall
    /\ result.events[1] # result.events[2]
    /\ Accepted(2)
    /\ returned.r[1] = SequenceError
    /\ state = returned.r[2].state
    /\ event = result.events[1]

---------------------------------------------------------------------------
(* Properties of two concurrent process calls (SpecRace) *)

\* call k has returned Ok
ReturnedOk(k) == returned.pc[k] = "returned" /\ returned.ret[k].ok

\* C34: of two concurrent process calls for the same registry, each with a
\* rotation generated from the same state, at most one returns Ok, in every
\* interleaving of their appends and folds
C34_AtMostOneReturnsOk ==
    result # NoCall => ~(ReturnedOk(1) /\ ReturnedOk(2))

\* both rotations were appended before either call folded: both calls
\* returned the sequence error, though the registry has backers and the
\* first of the two alone would have been accepted
C34_Witness ==
    /\ result # NoCall
    /\ before.backers # None
    /\ returned.pc = <<"returned", "returned">>
    /\ returned.ret[1] = SequenceError
    /\ returned.ret[2] = SequenceError
    /\ Len(management_events[before.prefix]) = 3
    /\ apply_to(result.events[1].body, before).ok

---------------------------------------------------------------------------
(* Further properties of the streams of the database (SpecDb) *)

ImproperEventType == Err("Improper event type")

\* C35: starting from the empty database, every management stream holds
\* management events only, every VC stream holds VC events only, and every
\* event is in the stream keyed by its own prefix i; so no fold ever takes
\* its wrong-class branch
C35_StreamsHoldTheirClass ==
    \A id \in StreamIds :
      /\ \A k \in 1..Len(management_events[id]) :
            /\ management_events[id][k].event.class = "Management"
            /\ management_events[id][k].event.body.i = id
      /\ \A k \in 1..Len(vc_events[id]) :
            /\ vc_events[id][k].event.class = "Vc"
            /\ vc_events[id][k].event.body.i = id
      /\ get_management_tel_state(management_events, id) # ImproperEventType

\* registry R1 holds a management event, and the VC whose prefix is also R1
\* and the VC V1 hold VC events, each in its own keyspace
C35_Witness ==
    /\ management_events["R1"] # <<>>
    /\ vc_events["R1"] # <<>>
    /\ vc_events["V1"] # <<>>
    /\ management_events["V1"] = <<>>
    /\ returned \notin {NoCall, InFlight}
    /\ returned.ok

---------------------------------------------------------------------------
(* Properties of the acceptance of VC events (Spec) *)

\* a process call for a VC event happens in this step
VcProcessed ==
    /\ <<management_events, vc_events>>' # <<management_events, vc_events>>
    /\ event'.event.class = "Vc"

\* C36: whether a VC event is accepted depends on the VC's own stream only:
\* an Iss or Bis for a VC that is NotIssued is accepted whatever the
\* management streams hold and whatever sn it carries, and a Rev or Brv
\* whose p binds the issuance is accepted whatever its sn and anchor are
C36_VcAcceptanceByOwnStream ==
    [][ VcProcessed =>
          LET e == event'.event.body
              st == get_vc_state(vc_events, e.i)
          IN  /\ (e.t \in {"iss", "bis"} /\ st = Ok(NotIsuued))
                   => returned' = Ok([class |-> "Tel",
                                      state |-> Issued(SerializeVc(e))])
              /\ (e.t \in {"rev", "brv"} /\ st.ok /\ st.state.tag = "Issued"
                  /\ VerifyBinding(e.p, st.state.last))
                   => returned' = Ok([class |-> "Tel", state |-> Revoked])
              /\ UNCHANGED management_events ]_vars

\* with no management event ever processed, an issuance with sn 1 naming
\* registry R2 was accepted, and then a binding revocation with sn 0
\* anchored to R2
C36_Witness ==
    /\ \A id \in StreamIds : management_events[id] = <<>>
    /\ Len(vc_events["V1"]) = 2
    /\ vc_events["V1"][1].event.body = Iss("V1", 1, "R2")
    /\ event = vc_events["V1"][2]
    /\ event.event.body.t = "brv"
    /\ event.event.body.s = 0
    /\ event.event.body.ra.some
    /\ returned = Ok([class |-> "Tel", state |-> Revoked])

---------------------------------------------------------------------------
(* Further properties of the Tel facade (SpecTel) *)

\* C37: a Tel::process call that returns an error leaves the facade as it
\* was: when tel_prefix was the default it still is, and the facade's
\* get_management_tel_state still reads the stream of the default prefix
C37_ErrorKeepsTelPrefix ==
    [][ (ProcessStep /\ ~returned'.ok) =>
          /\ tel' = tel
          /\ tel.tel_prefix = DefaultPrefix =>
               /\ tel'.tel_prefix = DefaultPrefix
               /\ get_management_tel_state(management_events', tel'.tel_prefix)
                    = get_management_tel_state(management_events', DefaultPrefix) ]_vars

\* the first management event processed through the facade, a rotation of
\* R2 that binds nothing, was rejected: it is stored, tel_prefix is still
\* the default and the facade reads the empty stream of the default prefix
C37_Witness ==
    /\ event # NoCall
    /\ event.event.class = "Management"
    /\ ~returned.ok
    /\ management_events[event.event.body.i] = <<event>>
    /\ \A id \in StreamIds \ {event.event.body.i} : management_events[id] = <<>>
    /\ tel.tel_prefix = DefaultPrefix
    /\ Tel_get_management_tel_state = Ok(DefaultManagerTelState)

---------------------------------------------------------------------------
(* Properties of the sequence-number text of a seal (SpecCodec) *)

\* the w bits of v, the most significant first
RECURSIVE Bits(_, _)
Bits(v, w) == IF w = 0 THEN <<>> ELSE Bits(v \div 2, w - 1) \o <<v % 2>>

\* the bits of a sequence of values of w bits each
RECURSIVE BitsOfAll(_, _)
BitsOfAll(vs, w) ==
    IF vs = <<>> THEN <<>> ELSE Bits(Head(vs), w) \o BitsOfAll(Tail(vs), w)

\* the value of a character of the URL-safe alphabet
CharValue(c) == (CHOOSE i \in 1..64 : Base64[i] = c) - 1

\* C38: the sequence-number text of a seal is a function of sn alone, has
\* exactly 22 characters of the URL-safe alphabet, which spell the bits of
\* eight zero bytes followed by the big-endian bytes of sn (and four zero
\* bits), with no padding character; distinct sns have distinct texts
C38_SnTextIs22AndInjective ==
    (before # NoCall /\ before.call = "num_to_base_64") =>
        LET text == result.state
        IN  /\ text = num_to_base_64_be(before.sn)
            /\ Len(text) = 22
            /\ \A k \in 1..Len(text) : \E i \in 1..64 : Base64[i] = text[k]
            /\ BitsOfAll([k \in 1..Len(text) |-> CharValue(text[k])], 6)
                 = BitsOfAll(<<0, 0, 0, 0, 0, 0, 0, 0>> \o before.sn, 8)
                   \o <<0, 0, 0, 0>>
            /\ \A other \in SnBytesInputs :
                 other # before.sn => num_to_base_64_be(other) # text

\* the text of the largest u64
C38_Witness ==
    /\ before # NoCall
    /\ before.call = "num_to_base_64"
    /\ before.sn = <<255, 255, 255, 255, 255, 255, 255, 255>>
    /\ Len(result.state) = 22
    /\ SubSeq(result.state, 1, 10) = [k \in 1..10 |-> "A"]
    /\ result.state[11] = "D"
    /\ result.state[21] = "_"
    /\ result.state[22] = "w"

=============================================================================
